---- MODULE Spec2Model ----
(***************************************************************************)
(* Segment alignment and merge engine of DeepRecall's conversation         *)
(* backend (python/helpers/parsingHelpers.py), as it is driven by the      *)
(* merge endpoint (python/endpoints/conversate/chat.py):                   *)
(*   combine_transcript_and_rttm -> remap_speakers (optional)              *)
(*                               -> merge_consecutive_segments.            *)
(* Times are seconds, modelled as naturals.  A text is a sequence of       *)
(* one-character strings, so that str.strip() and word boundaries are      *)
(* computed and not assumed.                                               *)
(*                                                                         *)
(* The second half models the conversation store around that engine: the   *)
(* JSON store of conversation records (helpers/dataPersistenceHelpers.py), *)
(* the per-conversation folder of artifacts, the non-streaming endpoints   *)
(* of endpoints/conversate/conversation.py, speakers.py and chat.py, and   *)
(* the streaming diarization and transcription runs, one step per yielded  *)
(* event.                                                                  *)
(***************************************************************************)
EXTENDS Integers, Sequences, FiniteSets, TLC

VARIABLES
    pc,                  \* position inside the merge request
    transcript_segments, \* transcript_result["segments"]: {start, end, text}
    rttm_segments,       \* parse_rttm(rttm_file): {start, end, speaker}
    speakers_list,       \* names parsed from selected_speakers
    combined_segments,   \* the list built by the combiner (mutated in place later)
    merged_segments,     \* the list returned by the merger
    store,               \* conversations.json: conversation id -> record
    fs,                  \* conversations/: conversation id -> folder of artifacts
    run,                 \* the streaming request in flight (generator frame)
    now,                 \* time.time()
    response,            \* outcome of the last request answered
    served,              \* number of requests answered so far
    rttm_file,           \* the lines of an RTTM file given to the two parsers
    rttm_parsed,         \* what parse_rttm made of rttm_file
    rttm_grouped,        \* what the grouping loop made of rttm_file
    names_field,         \* the comma-separated names given to both entry points
    process_output       \* the last event of the /process stream

pipeline_vars == <<pc, transcript_segments, rttm_segments, speakers_list,
                   combined_segments, merged_segments>>

store_vars == <<store, fs, run, now, response, served>>

entry_vars == <<rttm_file, rttm_parsed, rttm_grouped, names_field, process_output>>

vars == <<pipeline_vars, store_vars, entry_vars>>

(***************************************************************************)
(* Bounds of the model.                                                    *)
(***************************************************************************)
MaxTime == 2
MaxRttm == 3
MaxSegs == 3
MaxChars == 3
MaxNames == 2

(***************************************************************************)
(* Python builtins used by the code.                                       *)
(***************************************************************************)
min(a, b) == IF a <= b THEN a ELSE b
max(a, b) == IF a >= b THEN a ELSE b

Whitespace == {" "}

RECURSIVE lstrip(_)
lstrip(text) ==
    IF text = <<>> THEN <<>>
    ELSE IF Head(text) \in Whitespace THEN lstrip(Tail(text))
    ELSE text

RECURSIVE rstrip(_)
rstrip(text) ==
    IF text = <<>> THEN <<>>
    ELSE IF text[Len(text)] \in Whitespace
         THEN rstrip(SubSeq(text, 1, Len(text) - 1))
    ELSE text

\* str.strip(): leading and trailing whitespace removed, inner whitespace kept.
strip(text) == rstrip(lstrip(text))

\* list.sort(key=lambda x: x["start"]): ascending and stable.  Each element is
\* inserted behind every element whose key is not greater than its own.
RECURSIVE InsertByStart(_, _)
InsertByStart(sorted, x) ==
    IF sorted = <<>> THEN <<x>>
    ELSE IF Head(sorted).start <= x.start
         THEN <<Head(sorted)>> \o InsertByStart(Tail(sorted), x)
    ELSE <<x>> \o sorted

RECURSIVE SortByStart(_)
SortByStart(list) ==
    IF list = <<>> THEN <<>>
    ELSE InsertByStart(SortByStart(SubSeq(list, 1, Len(list) - 1)),
                       list[Len(list)])

(***************************************************************************)
(* Overlap Resolver.                                                       *)
(***************************************************************************)
\* The loop of assign_speaker_to_segment from interval i on, carrying
\* max_overlap and best_speaker.
RECURSIVE assign_loop(_, _, _, _, _)
assign_loop(transcript_seg, rttm, i, max_overlap, best_speaker) ==
    IF i > Len(rttm) THEN best_speaker
    ELSE LET r_seg == rttm[i]
             overlap == min(transcript_seg.end, r_seg.end)
                        - max(transcript_seg.start, r_seg.start)
         IN IF overlap > max_overlap /\ overlap > 0
            THEN assign_loop(transcript_seg, rttm, i + 1, overlap, r_seg.speaker)
            ELSE assign_loop(transcript_seg, rttm, i + 1, max_overlap, best_speaker)

\* Faulty variant of the resolver: ties go to the later interval (>= for >).
RECURSIVE assign_loop_LastTie(_, _, _, _, _)
assign_loop_LastTie(transcript_seg, rttm, i, max_overlap, best_speaker) ==
    IF i > Len(rttm) THEN best_speaker
    ELSE LET r_seg == rttm[i]
             overlap == min(transcript_seg.end, r_seg.end)
                        - max(transcript_seg.start, r_seg.start)
         IN IF overlap >= max_overlap /\ overlap > 0
            THEN assign_loop_LastTie(transcript_seg, rttm, i + 1, overlap, r_seg.speaker)
            ELSE assign_loop_LastTie(transcript_seg, rttm, i + 1, max_overlap, best_speaker)

assign_speaker_LastTie(transcript_seg, rttm) ==
    assign_loop_LastTie(transcript_seg, rttm, 1, 0, "Unknown")

\* Faulty variant of the resolver: the test "overlap > 0" is lost and the comparison
\* is not strict, so an interval that only touches the segment is taken.
RECURSIVE assign_loop_NoPositive(_, _, _, _, _)
assign_loop_NoPositive(transcript_seg, rttm, i, max_overlap, best_speaker) ==
    IF i > Len(rttm) THEN best_speaker
    ELSE LET r_seg == rttm[i]
             overlap == min(transcript_seg.end, r_seg.end)
                        - max(transcript_seg.start, r_seg.start)
         IN IF overlap >= max_overlap
            THEN assign_loop_NoPositive(transcript_seg, rttm, i + 1, overlap, r_seg.speaker)
            ELSE assign_loop_NoPositive(transcript_seg, rttm, i + 1, max_overlap, best_speaker)

assign_speaker_NoPositive(transcript_seg, rttm) ==
    assign_loop_NoPositive(transcript_seg, rttm, 1, 0, "Unknown")

\* Faulty variant of the resolver: max_overlap is never compared, any positive
\* overlap replaces the speaker found so far.
RECURSIVE assign_loop_AnyPositive(_, _, _, _)
assign_loop_AnyPositive(transcript_seg, rttm, i, best_speaker) ==
    IF i > Len(rttm) THEN best_speaker
    ELSE LET r_seg == rttm[i]
             overlap == min(transcript_seg.end, r_seg.end)
                        - max(transcript_seg.start, r_seg.start)
         IN IF overlap > 0
            THEN assign_loop_AnyPositive(transcript_seg, rttm, i + 1, r_seg.speaker)
            ELSE assign_loop_AnyPositive(transcript_seg, rttm, i + 1, best_speaker)

assign_speaker_AnyPositive(transcript_seg, rttm) ==
    assign_loop_AnyPositive(transcript_seg, rttm, 1, "Unknown")

assign_speaker_to_segment(transcript_seg, rttm) ==
    assign_loop(transcript_seg, rttm, 1, 0, "Unknown")

(***************************************************************************)
(* Timeline Combiner.                                                      *)
(***************************************************************************)
\* The dictionary appended for one transcript segment.
CombinedOf(seg, rttm) ==
    [start |-> seg.start, end |-> seg.end,
     speaker |-> assign_speaker_to_segment(seg, rttm), text |-> seg.text]

\* Faulty variant of the combiner: the trailing sort is skipped.
combine_NoSort(transcript, rttm) ==
    [i \in 1..Len(transcript) |-> CombinedOf(transcript[i], rttm)]

\* Faulty variant of the combiner: segments nobody speaks in are left out.
combine_DropUnknown(transcript, rttm) ==
    SortByStart(SelectSeq([i \in 1..Len(transcript) |-> CombinedOf(transcript[i], rttm)],
                          LAMBDA x : x.speaker # "Unknown"))

combine_transcript_and_rttm(transcript, rttm) ==
    SortByStart([i \in 1..Len(transcript) |-> CombinedOf(transcript[i], rttm)])

(***************************************************************************)
(* Speaker Remapper.                                                       *)
(***************************************************************************)
\* The first loop of remap_speakers: the distinct labels in order of first
\* appearance.
RECURSIVE unique_loop(_, _, _)
unique_loop(segments, i, unique_speakers) ==
    IF i > Len(segments) THEN unique_speakers
    ELSE IF \E k \in 1..Len(unique_speakers) : unique_speakers[k] = segments[i].speaker
         THEN unique_loop(segments, i + 1, unique_speakers)
    ELSE unique_loop(segments, i + 1, Append(unique_speakers, segments[i].speaker))

\* Labels in lexicographic order, for the faulty variant below.
SortedLabels ==
    <<"SPEAKER_00", "SPEAKER_01", "SPEAKER_02", "SPEAKER_03", "SPEAKER_04", "Unknown">>

\* Faulty variant of the remapper: the distinct labels are taken in alphabetical
\* order (sorted(set(...))) and not by first appearance.
unique_speakers_Sorted(segments) ==
    SelectSeq(SortedLabels,
              LAMBDA l : \E i \in 1..Len(segments) : segments[i].speaker = l)

unique_speakers_of(segments) == unique_loop(segments, 1, <<>>)

\* Faulty variant of the mapping: "Unknown" is never given a name (it still
\* takes its position among the labels).
mapping_of_KeepUnknown(unique_speakers, speaker_names, sp) ==
    LET idx == (CHOOSE k \in 1..Len(unique_speakers) : unique_speakers[k] = sp) - 1
    IN IF idx < Len(speaker_names) /\ sp # "Unknown" THEN speaker_names[idx + 1] ELSE sp

\* mapping[sp], built by the second loop: idx is the 0-based position of sp.
mapping_of(unique_speakers, speaker_names, sp) ==
    LET idx == (CHOOSE k \in 1..Len(unique_speakers) : unique_speakers[k] = sp) - 1
    IN IF idx < Len(speaker_names) THEN speaker_names[idx + 1] ELSE sp

\* Faulty variant of the remapper: the i-th segment gets the i-th name.
remap_speakers_ByPosition(segments, speaker_names) ==
    [i \in 1..Len(segments) |->
        [segments[i] EXCEPT
           !.speaker = IF i <= Len(speaker_names) THEN speaker_names[i] ELSE @]]

remap_speakers(segments, speaker_names) ==
    LET unique_speakers == unique_speakers_of(segments)
    IN [i \in 1..Len(segments) |->
          [segments[i] EXCEPT
             !.speaker = mapping_of(unique_speakers, speaker_names, segments[i].speaker)]]

(***************************************************************************)
(* Consecutive-Run Merger.                                                 *)
(* merged_segments holds the very dictionaries of the input list, so the    *)
(* loop changes the input list in place.  heads are the positions, in the   *)
(* input list, of the dictionaries that merged_segments holds.              *)
(***************************************************************************)
\* Faulty variant of the merger: the texts are joined without the separating space.
merged_text_NoSpace(last_text, seg_text) == strip(last_text) \o strip(seg_text)

\* last_seg["text"].strip() + " " + seg["text"].strip()
merged_text(last_text, seg_text) == strip(last_text) \o <<" ">> \o strip(seg_text)

\* Faulty variant of the merger: compares with merged_segments[0].
last_head_First(heads) == heads[1]

\* merged_segments[-1]
last_head(heads) == heads[Len(heads)]

RECURSIVE merge_loop(_, _, _)
merge_loop(segments, i, heads) ==
    IF i > Len(segments) THEN [segments |-> segments, heads |-> heads]
    ELSE LET seg == segments[i]
             h == last_head(heads)
             last_seg == segments[h]
         IN IF seg.speaker = last_seg.speaker
            THEN merge_loop([segments EXCEPT
                               ![h] = [last_seg EXCEPT
                                         !.end = seg.end,
                                         !.text = merged_text(last_seg.text, seg.text)]],
                            i + 1, heads)
            ELSE merge_loop(segments, i + 1, Append(heads, i))

\* Faulty variant of the merger: the loop runs over segments, not segments[1:].
merge_run_FromFirst(segments) == merge_loop(segments, 1, <<1>>)

\* merged_segments = [segments[0]]; for seg in segments[1:]: ...
merge_run(segments) == merge_loop(segments, 2, <<1>>)

merge_consecutive_segments(segments) ==
    IF segments = <<>> THEN <<>>
    ELSE LET r == merge_run(segments)
         IN [k \in 1..Len(r.heads) |-> r.segments[r.heads[k]]]

\* The caller's list after the call: the heads of the runs were extended.
segments_after_merge(segments) ==
    IF segments = <<>> THEN <<>> ELSE merge_run(segments).segments

(***************************************************************************)
(* Inputs of a merge request.  Every family is a bounded set of what the    *)
(* diarization and transcription stages can have written.                   *)
(***************************************************************************)
Times == 0..MaxTime

\* Labels as the diarization pipeline writes them.
SpeakerLabels == <<"SPEAKER_00", "SPEAKER_01", "SPEAKER_02", "SPEAKER_03", "SPEAKER_04">>

Chars == {" ", "a"}

NamePool == {"Alice", "Bob", "SPEAKER_01"}

SeqsUpTo(S, n) == UNION {[1..k -> S] : k \in 0..n}

\* One parsed RTTM line: field 3 is the start, field 4 the duration, field 7
\* the speaker.
RttmRecord(start, duration, speaker) ==
    [start |-> start, end |-> start + duration, speaker |-> speaker]

\* The (start, duration) pairs of intervals that lie inside the time range.
RttmFields == {f \in (0..MaxTime) \X (1..MaxTime) : f[1] + f[2] <= MaxTime}

\* The (start, end) pairs of transcript segments, zero-length ones included.
SegmentSpans == {p \in Times \X Times : p[1] <= p[2]}

\* Lists of n texts whose lengths add up to at most c characters.
RECURSIVE TextLists(_, _)
TextLists(n, c) ==
    IF n = 0 THEN {<<>>}
    ELSE UNION {{<<t>> \o r : r \in TextLists(n - 1, c - Len(t))} : t \in SeqsUpTo(Chars, c)}

\* One transcript segment against up to MaxRttm intervals, each interval of a
\* speaker of its own.
InputsResolver ==
    /\ transcript_segments \in
         {<<[start |-> p[1], end |-> p[2], text |-> <<"a">>]>> : p \in SegmentSpans}
    /\ rttm_segments \in
         UNION {{[i \in 1..k |-> RttmRecord(f[i][1], f[i][2], SpeakerLabels[i])] :
                   f \in [1..k -> RttmFields]} : k \in 0..MaxRttm}
    /\ speakers_list = <<>>

\* Two speakers, the second one taking over at second k.
TwoParty(k) ==
    <<RttmRecord(0, k, SpeakerLabels[1]), RttmRecord(k, MaxTime + 1 - k, SpeakerLabels[2])>>

\* Up to MaxSegs one-second transcript segments in any order, against no
\* diarization at all or a two-speaker timeline.
InputsTimeline ==
    /\ transcript_segments \in
         SeqsUpTo({[start |-> s, end |-> s + 1, text |-> t] :
                     s \in Times, t \in {<<"a">>, <<"b">>}}, MaxSegs) \ {<<>>}
    /\ rttm_segments \in {<<>>} \cup {TwoParty(k) : k \in 1..MaxTime}
    /\ speakers_list = <<>>

\* Up to MaxSegs consecutive transcript segments with any texts of at most
\* MaxChars characters in all, each one inside the interval of one speaker.
InputsText ==
    /\ \E n \in 1..MaxSegs :
         \E texts \in TextLists(n, MaxChars) :
           \E sp \in [1..n -> {SpeakerLabels[1], SpeakerLabels[2]}] :
             /\ transcript_segments =
                  [i \in 1..n |-> [start |-> i - 1, end |-> i, text |-> texts[i]]]
             /\ rttm_segments = [i \in 1..n |-> RttmRecord(i - 1, 1, sp[i])]
    /\ speakers_list = <<>>

\* Up to MaxSegs consecutive transcript segments, each one inside the interval
\* of one speaker or inside a gap of the diarization, and up to MaxNames names.
InputsRemap ==
    /\ \E n \in 1..MaxSegs :
         \E sp \in [1..n -> {SpeakerLabels[1], SpeakerLabels[2], "gap"}] :
             /\ transcript_segments =
                  [i \in 1..n |-> [start |-> i - 1, end |-> i, text |-> <<"a">>]]
             /\ rttm_segments =
                  SelectSeq([i \in 1..n |-> RttmRecord(i - 1, 1, sp[i])],
                            LAMBDA r : r.speaker # "gap")
    /\ speakers_list \in SeqsUpTo(NamePool, MaxNames)

\* The worked example of the specification.
ExampleRttm == <<[start |-> 0, end |-> 5, speaker |-> "A"],
                 [start |-> 5, end |-> 10, speaker |-> "B"]>>

ExampleTranscript ==
    <<[start |-> 0, end |-> 2, text |-> <<"h", "i">>],
      [start |-> 2, end |-> 6, text |-> <<"t", "h", "e", "r", "e">>],
      [start |-> 6, end |-> 9, text |-> <<"b", "y", "e">>]>>

InputsExample ==
    /\ transcript_segments = ExampleTranscript
    /\ rttm_segments = ExampleRttm
    /\ speakers_list = <<>>

(***************************************************************************)
(* The conversation store: records, folders, requests.                     *)
(***************************************************************************)
\* Conversation ids the requests are made with.
ConvIds == {"convA", "convB"}

\* The keys of a record's "states" dictionary.
Flags == {"audioAvailable", "diarization", "transcript", "speakerAudioSegments",
          "speakerAssignment", "report", "stats"}

\* None, for a timestamp and for a device name.  Timestamps start at 1.
NoTime == 0

NoDevice == "None"

\* d[k] = v on a Python dict: the key is added when it is missing.
setitem(d, k, v) == [x \in DOMAIN d \cup {k} |-> IF x = k THEN v ELSE d[x]]

\* [c for c in conversations if c["id"] != conv_id]
without(conversations, conv_id) ==
    [x \in DOMAIN conversations \ {conv_id} |-> conversations[x]]

NewProcess ==
    [timeStarted |-> NoTime, timeCompleted |-> NoTime, logs |-> <<>>,
     device |-> NoDevice]

\* The record initialize_conversation appends (fields no request reads or
\* writes afterwards are left out).
NewConversation ==
    [speakers |-> <<>>,
     states |-> [f \in Flags |-> FALSE],
     diarizationProcess |-> NewProcess,
     transcriptionProcess |-> NewProcess]

\* A file that does not exist, and a file with the given content.
NoFile == [exists |-> FALSE, content |-> <<>>]

File(content) == [exists |-> TRUE, content |-> content]

\* A conversation folder that does not exist, and the one os.makedirs creates.
NoFolder ==
    [exists |-> FALSE, wav |-> FALSE, mp3 |-> FALSE, rttm |-> NoFile,
     raw |-> NoFile, merged |-> NoFile, segments_folder |-> FALSE,
     segment_mp3s |-> 0]

makedirs(folder) == [folder EXCEPT !.exists = TRUE]

NoRun ==
    [stage |-> "none", conv |-> "none", pc |-> "idle", conversations |-> <<>>,
     events |-> <<>>]

NoResponse == [op |-> "none", conv |-> "none", status |-> 0, states |-> <<>>]

\* The answer of a request: the endpoint, the id, and the HTTP status.
Answer(op, conv_id, status) ==
    [op |-> op, conv |-> conv_id, status |-> status, states |-> <<>>]

\* A parser or an entry point that has not run.
NotRun == [ok |-> FALSE, done |-> FALSE]

\* The parsers and the /process endpoint are not used.
EntryIdle ==
    /\ rttm_file = <<>>
    /\ rttm_parsed = NotRun
    /\ rttm_grouped = NotRun
    /\ names_field = <<>>
    /\ process_output = NotRun

\* The store side is not involved in the runs of the merge engine alone.
StoreIdle ==
    /\ store = <<>>
    /\ fs = [c \in ConvIds |-> NoFolder]
    /\ run = NoRun
    /\ now = 1
    /\ response = NoResponse
    /\ served = 0

Init ==
    /\ StoreIdle
    /\ EntryIdle
    /\ pc = "start"
    /\ combined_segments = <<>>
    /\ merged_segments = <<>>
    /\ \/ InputsResolver
       \/ InputsTimeline
       \/ InputsText
       \/ InputsRemap
       \/ InputsExample

(***************************************************************************)
(* The steps of the merge request.                                         *)
(***************************************************************************)
\* combined_segments = combine_transcript_and_rttm(transcript_segments, rttm_segments)
Combine ==
    /\ pc = "start"
    /\ combined_segments' = combine_transcript_and_rttm(transcript_segments, rttm_segments)
    /\ pc' = "combined"
    /\ UNCHANGED <<transcript_segments, rttm_segments, speakers_list, merged_segments>>
    /\ UNCHANGED <<store_vars, entry_vars>>

\* if speakers_list: combined_segments = remap_speakers(combined_segments, speakers_list)
Remap ==
    /\ pc = "combined"
    /\ speakers_list # <<>>
    /\ combined_segments' = remap_speakers(combined_segments, speakers_list)
    /\ pc' = "remapped"
    /\ UNCHANGED <<transcript_segments, rttm_segments, speakers_list, merged_segments>>
    /\ UNCHANGED <<store_vars, entry_vars>>

\* merged_segments = merge_consecutive_segments(combined_segments)
Merge ==
    /\ pc = "remapped" \/ (pc = "combined" /\ speakers_list = <<>>)
    /\ merged_segments' = merge_consecutive_segments(combined_segments)
    /\ combined_segments' = segments_after_merge(combined_segments)
    /\ pc' = "merged"
    /\ UNCHANGED <<transcript_segments, rttm_segments, speakers_list>>
    /\ UNCHANGED <<store_vars, entry_vars>>

Next == Combine \/ Remap \/ Merge

Spec == Init /\ [][Next]_vars

(***************************************************************************)
(* Notions the properties are stated in.  They restate the specification,  *)
(* not the code.                                                           *)
(***************************************************************************)
\* Overlap of a segment with an interval, in seconds (negative: the gap).
Overlap(seg, iv) ==
    (IF seg.end <= iv.end THEN seg.end ELSE iv.end)
    - (IF seg.start >= iv.start THEN seg.start ELSE iv.start)

HasPositiveOverlap(seg, rttm) == \E k \in 1..Len(rttm) : Overlap(seg, rttm[k]) > 0

\* k is an interval of maximal overlap with seg.
IsMaxOverlap(seg, rttm, k) ==
    \A j \in 1..Len(rttm) : Overlap(seg, rttm[j]) <= Overlap(seg, rttm[k])

\* The (start, end, text) triple of a segment.
Triple(x) == <<x.start, x.end, x.text>>

TriplesOf(list) == [i \in 1..Len(list) |-> Triple(list[i])]

SpeakersOf(list) == [i \in 1..Len(list) |-> list[i].speaker]

Count(list, x) == Cardinality({i \in 1..Len(list) : list[i] = x})

NoAdjacentEqualSpeakers(list) ==
    \A i \in 1..(Len(list) - 1) : list[i].speaker # list[i + 1].speaker

\* The words of a text: its maximal runs of non-whitespace characters.
RECURSIVE WordsFrom(_, _, _)
WordsFrom(text, word, words) ==
    IF text = <<>> THEN (IF word = <<>> THEN words ELSE Append(words, word))
    ELSE IF Head(text) \in Whitespace
         THEN WordsFrom(Tail(text), <<>>, IF word = <<>> THEN words ELSE Append(words, word))
    ELSE WordsFrom(Tail(text), Append(word, Head(text)), words)

Words(text) == WordsFrom(text, <<>>, <<>>)

\* The words of the texts of a list of segments, in order.
RECURSIVE AllWords(_)
AllWords(list) ==
    IF list = <<>> THEN <<>> ELSE Words(Head(list).text) \o AllWords(Tail(list))

(***************************************************************************)
(* C1.  The Overlap Resolver returns the speaker of an interval whose       *)
(* overlap with the segment is strictly positive and maximal over the       *)
(* list; when no interval overlaps the segment positively (empty list,      *)
(* disjoint or touching intervals, zero-length segment) it returns          *)
(* "Unknown".  Stated of every segment the combiner has labelled.           *)
(***************************************************************************)
C1_ResolverMaxOverlapOrUnknown ==
    pc = "combined" =>
      \A i \in 1..Len(combined_segments) :
        LET seg == combined_segments[i]
        IN IF HasPositiveOverlap(seg, rttm_segments)
           THEN \E k \in 1..Len(rttm_segments) :
                  /\ rttm_segments[k].speaker = seg.speaker
                  /\ Overlap(seg, rttm_segments[k]) > 0
                  /\ IsMaxOverlap(seg, rttm_segments, k)
           ELSE seg.speaker = "Unknown"

\* A segment labelled "Unknown" although the first interval touches it at an
\* endpoint and another one lies apart from it.
C1_Witness ==
    /\ pc = "combined"
    /\ Len(rttm_segments) >= 2
    /\ \E i \in 1..Len(combined_segments) :
         /\ combined_segments[i].speaker = "Unknown"
         /\ combined_segments[i].start < combined_segments[i].end
         /\ Overlap(combined_segments[i], rttm_segments[1]) = 0
         /\ \E k \in 1..Len(rttm_segments) : Overlap(combined_segments[i], rttm_segments[k]) < 0

(***************************************************************************)
(* C2.  Tie-break: when several intervals have the same maximal positive    *)
(* overlap with a segment, the resolver returns the speaker of the first    *)
(* of them in list order, wherever they stand in the list.                  *)
(***************************************************************************)
C2_TieGoesToFirstListed ==
    pc = "combined" =>
      \A i \in 1..Len(combined_segments) :
        LET seg == combined_segments[i]
        IN HasPositiveOverlap(seg, rttm_segments) =>
             \E k \in 1..Len(rttm_segments) :
               /\ IsMaxOverlap(seg, rttm_segments, k)
               /\ \A j \in 1..(k - 1) :
                    Overlap(seg, rttm_segments[j]) < Overlap(seg, rttm_segments[k])
               /\ seg.speaker = rttm_segments[k].speaker

\* Two intervals of different speakers tie for the maximal overlap, behind an
\* interval of smaller positive overlap, and the first of the two has won.
C2_Witness ==
    /\ pc = "combined"
    /\ \E i \in 1..Len(combined_segments) :
         \E k1, k2 \in 1..Len(rttm_segments) :
           LET seg == combined_segments[i]
           IN /\ 1 < k1 /\ k1 < k2
              /\ Overlap(seg, rttm_segments[1]) > 0
              /\ Overlap(seg, rttm_segments[1]) < Overlap(seg, rttm_segments[k1])
              /\ Overlap(seg, rttm_segments[k1]) = Overlap(seg, rttm_segments[k2])
              /\ IsMaxOverlap(seg, rttm_segments, k1)
              /\ rttm_segments[k1].speaker # rttm_segments[k2].speaker
              /\ seg.speaker = rttm_segments[k1].speaker

(***************************************************************************)
(* C3.  The combiner's output is in non-decreasing order of start for       *)
(* every order of the input; segments with equal start keep their input     *)
(* order.                                                                   *)
(***************************************************************************)
C3_CombinedSortedStable ==
    pc = "combined" =>
      /\ \A i \in 1..(Len(combined_segments) - 1) :
           combined_segments[i].start <= combined_segments[i + 1].start
      /\ \A t \in {transcript_segments[i].start : i \in 1..Len(transcript_segments)} :
           SelectSeq(TriplesOf(combined_segments), LAMBDA x : x[1] = t)
             = SelectSeq(TriplesOf(transcript_segments), LAMBDA x : x[1] = t)

\* The input was out of order and held two different segments of equal start.
C3_Witness ==
    /\ pc = "combined"
    /\ \E i, j \in 1..Len(transcript_segments) :
         i < j /\ transcript_segments[i].start > transcript_segments[j].start
    /\ \E i, j \in 1..Len(transcript_segments) :
         /\ i < j
         /\ transcript_segments[i].start = transcript_segments[j].start
         /\ transcript_segments[i].text # transcript_segments[j].text

(***************************************************************************)
(* C4.  The combiner drops and adds nothing: its output holds the same      *)
(* (start, end, text) triples as the transcript, each as often, and the     *)
(* speaker of each output segment is the resolver's result for it.          *)
(***************************************************************************)
C4_CombinedSameSegments ==
    pc = "combined" =>
      /\ Len(combined_segments) = Len(transcript_segments)
      /\ \A i \in 1..Len(transcript_segments) :
           Count(TriplesOf(combined_segments), Triple(transcript_segments[i]))
             = Count(TriplesOf(transcript_segments), Triple(transcript_segments[i]))
      /\ \A i \in 1..Len(combined_segments) :
           combined_segments[i].speaker
             = assign_speaker_to_segment(combined_segments[i], rttm_segments)

\* The transcript holds one triple twice, out of order, with no diarization.
C4_Witness ==
    /\ pc = "combined"
    /\ rttm_segments = <<>>
    /\ Len(combined_segments) = 3
    /\ \E i, j \in 1..Len(transcript_segments) :
         i < j /\ transcript_segments[i] = transcript_segments[j]
    /\ \E i, j \in 1..Len(transcript_segments) :
         i < j /\ transcript_segments[i].start > transcript_segments[j].start

(***************************************************************************)
(* C5.  The merger's output never holds two adjacent segments of the same   *)
(* speaker, whatever the labels of its input are.                           *)
(***************************************************************************)
C5_NoAdjacentEqualSpeakers ==
    pc = "merged" => NoAdjacentEqualSpeakers(merged_segments)

\* Segments of two different diarization speakers, given one label by the
\* remapping, have been merged into a single segment.
C5_Witness ==
    /\ pc = "merged"
    /\ speakers_list # <<>>
    /\ Len(transcript_segments) = 3
    /\ Len(merged_segments) = 1
    /\ \E i, j \in 1..Len(rttm_segments) : rttm_segments[i].speaker # rttm_segments[j].speaker

(***************************************************************************)
(* C6.  The merger is idempotent: merging its own output returns that       *)
(* output, field by field; a list without two adjacent equal speakers is    *)
(* returned as it is.                                                       *)
(***************************************************************************)
C6_MergeIdempotent ==
    /\ pc = "merged" => merge_consecutive_segments(merged_segments) = merged_segments
    /\ (pc \in {"combined", "remapped"} /\ NoAdjacentEqualSpeakers(combined_segments))
         => merge_consecutive_segments(combined_segments) = combined_segments

\* Two runs came out of three segments; the first text still begins with
\* whitespace and the second one ends with the separator.
C6_Witness ==
    /\ pc = "merged"
    /\ Len(transcript_segments) = 3
    /\ Len(merged_segments) = 2
    /\ merged_segments[1].text # <<>> /\ Head(merged_segments[1].text) \in Whitespace
    /\ merged_segments[2].text # <<>>
    /\ merged_segments[2].text[Len(merged_segments[2].text)] \in Whitespace

(***************************************************************************)
(* C7.  For every maximal run of consecutive segments of one speaker in     *)
(* the merger's input, the output holds exactly one segment: start of the   *)
(* first member, end of the last member, the run's speaker, and as text     *)
(* the members' texts, each trimmed, joined in order by single spaces.      *)
(***************************************************************************)
\* The last position of the run that begins at position i.
RunEnd(list, i) ==
    CHOOSE j \in i..Len(list) :
      /\ \A m \in i..j : list[m].speaker = list[i].speaker
      /\ j = Len(list) \/ list[j + 1].speaker # list[i].speaker

RECURSIVE JoinTrimmed(_, _, _)
JoinTrimmed(list, i, j) ==
    IF i = j THEN strip(list[i].text)
    ELSE strip(list[i].text) \o <<" ">> \o JoinTrimmed(list, i + 1, j)

RECURSIVE RunsFrom(_, _)
RunsFrom(list, i) ==
    IF i > Len(list) THEN <<>>
    ELSE LET j == RunEnd(list, i)
         IN <<[start |-> list[i].start, end |-> list[j].end,
               speaker |-> list[i].speaker, text |-> JoinTrimmed(list, i, j)]>>
            \o RunsFrom(list, j + 1)

C7_RunsTrimmedAndJoined ==
    [][pc' = "merged" => merged_segments' = RunsFrom(combined_segments, 1)]_vars

(***************************************************************************)
(* C8.  Round trip of words: without remapping, the words of the merged     *)
(* texts, in output order, are the words of the transcript texts taken in   *)
(* start-time order; no word is lost, doubled or moved.                     *)
(***************************************************************************)
C8_WordsRoundTrip ==
    (pc = "merged" /\ speakers_list = <<>>) =>
      AllWords(merged_segments) = AllWords(SortByStart(transcript_segments))

\* Three segments, one of them whitespace only, merged into one segment of
\* at least two words.
C8_Witness ==
    /\ pc = "merged"
    /\ speakers_list = <<>>
    /\ Len(transcript_segments) = 3
    /\ Len(merged_segments) = 1
    /\ Len(AllWords(merged_segments)) >= 2
    /\ \E i \in 1..Len(transcript_segments) :
         transcript_segments[i].text # <<>> /\ Words(transcript_segments[i].text) = <<>>

(***************************************************************************)
(* C9.  Remapping with fewer names than distinct labels: a segment whose    *)
(* label is the i-th distinct label by first appearance, i <= M, gets the   *)
(* i-th name; a segment with one of the other N - M labels keeps its        *)
(* label.  The order is first appearance in the combined list.              *)
(***************************************************************************)
\* 1-based rank of label l among the distinct labels, by first appearance.
FirstAppearanceRank(list, l) ==
    LET first == CHOOSE i \in 1..Len(list) :
                   list[i].speaker = l /\ \A j \in 1..(i - 1) : list[j].speaker # l
    IN 1 + Cardinality({list[j].speaker : j \in 1..(first - 1)})

C9_RemapFewerNames ==
    [][pc' = "remapped" =>
         LET M == Len(speakers_list)
             N == Cardinality({combined_segments[i].speaker : i \in 1..Len(combined_segments)})
         IN M < N =>
              /\ Len(combined_segments') = Len(combined_segments)
              /\ \A i \in 1..Len(combined_segments) :
                   LET r == FirstAppearanceRank(combined_segments, combined_segments[i].speaker)
                   IN combined_segments'[i].speaker
                        = IF r <= M THEN speakers_list[r] ELSE combined_segments[i].speaker]_vars

\* One name for three labels: the label that appeared first has the name, and
\* the alphabetically first label and "Unknown" are kept.
C9_Witness ==
    /\ pc = "remapped"
    /\ speakers_list = <<"Alice">>
    /\ SpeakersOf(combined_segments) = <<"Alice", "SPEAKER_00", "Unknown">>

(***************************************************************************)
(* C10.  Worked example: intervals [(0,5,A),(5,10,B)] and segments          *)
(* [(0,2,"hi"),(2,6,"there"),(6,9,"bye")] give the speakers [A, A, B] and    *)
(* the merged output [(0,6,A,"hi there"),(6,9,B,"bye")].                    *)
(***************************************************************************)
IsExample ==
    /\ transcript_segments = ExampleTranscript
    /\ rttm_segments = ExampleRttm
    /\ speakers_list = <<>>

C10_WorkedExample ==
    IsExample =>
      /\ pc = "combined" => SpeakersOf(combined_segments) = <<"A", "A", "B">>
      /\ pc = "merged" =>
           merged_segments =
             <<[start |-> 0, end |-> 6, speaker |-> "A",
                text |-> <<"h", "i", " ", "t", "h", "e", "r", "e">>],
               [start |-> 6, end |-> 9, speaker |-> "B", text |-> <<"b", "y", "e">>]>>

C10_Witness == IsExample /\ pc = "merged" /\ Len(merged_segments) = 2

(***************************************************************************)
(* The conversation store at rest: the pipeline variables are not used.    *)
(***************************************************************************)
PipelineIdle ==
    /\ pc = "off"
    /\ transcript_segments = <<>>
    /\ rttm_segments = <<>>
    /\ speakers_list = <<>>
    /\ combined_segments = <<>>
    /\ merged_segments = <<>>

(***************************************************************************)
(* GET /conversation/health-check/{conv_id}                                *)
(***************************************************************************)
\* os.path.exists(audio_wav) or os.path.exists(audio_mp3)
audio_exists(folder) == folder.wav \/ folder.mp3

\* the segments folder exists and holds at least one .mp3 file
segments_exist(folder) == folder.segments_folder /\ folder.segment_mp3s > 0

\* A health check that trusts the persisted diarization and transcript flags.
health_states_Trusting(conversation, folder) ==
    LET states == IF "states" \in DOMAIN conversation
                  THEN conversation.states ELSE <<>>
        s1 == setitem(states, "audioAvailable", audio_exists(folder))
        s4 == setitem(s1, "speakerAudioSegments", segments_exist(folder))
    IN  setitem(s4, "speakerAssignment",
                "speakers" \in DOMAIN conversation /\ conversation.speakers # <<>>)

\* The states dictionary health_check stores and returns: five keys are
\* recomputed, the other keys of the persisted dictionary are kept.
health_states(conversation, folder) ==
    LET states == IF "states" \in DOMAIN conversation
                  THEN conversation.states ELSE <<>>
        s1 == setitem(states, "audioAvailable", audio_exists(folder))
        s2 == setitem(s1, "diarization", folder.rttm.exists)
        s3 == setitem(s2, "transcript", folder.raw.exists)
        s4 == setitem(s3, "speakerAudioSegments", segments_exist(folder))
    IN  setitem(s4, "speakerAssignment",
                "speakers" \in DOMAIN conversation /\ conversation.speakers # <<>>)

health_check(conv_id) ==
    /\ IF conv_id \notin DOMAIN store
       THEN /\ response' = Answer("health_check", conv_id, 404)
            /\ UNCHANGED store
       ELSE LET states == health_states(store[conv_id], fs[conv_id]) IN
            /\ store' = setitem(store, conv_id,
                                setitem(store[conv_id], "states", states))
            /\ response' = [op |-> "health_check", conv |-> conv_id,
                            status |-> 200, states |-> states]
    /\ UNCHANGED <<fs, run, now, pipeline_vars>>

(***************************************************************************)
(* Health checks on a store and a folder found on disk: conversations.json *)
(* and the conversation folders outlive the server process, so a request   *)
(* meets whatever record and whatever files are there.                     *)
(***************************************************************************)
\* The folders health_check can meet: every combination of the artifacts.
FoldersOnDisk ==
    {NoFolder} \cup
    { [exists |-> TRUE, wav |-> w, mp3 |-> m, rttm |-> r, raw |-> t,
       merged |-> g, segments_folder |-> sg[1], segment_mp3s |-> sg[2]] :
        w \in BOOLEAN, m \in BOOLEAN, r \in {NoFile, File(<<>>)},
        t \in {NoFile, File(<<>>)}, g \in {NoFile, File(<<>>)},
        sg \in {<<FALSE, 0>>, <<TRUE, 0>>, <<TRUE, 1>>} }

\* The records health_check can meet: every valuation of the seven flags.
RecordsOnDisk ==
    { [NewConversation EXCEPT !.states = st, !.speakers = sp] :
        st \in [Flags -> BOOLEAN], sp \in {<<>>, <<"Alice">>} }

InitHealth ==
    /\ PipelineIdle
    /\ EntryIdle
    /\ \E rec \in RecordsOnDisk : store = setitem(<<>>, "convA", rec)
    /\ \E folder \in FoldersOnDisk :
           fs = [c \in ConvIds |-> IF c = "convA" THEN folder ELSE NoFolder]
    /\ run = NoRun
    /\ now = 1
    /\ response = NoResponse
    /\ served = 0

NextHealth ==
    (\E conv_id \in ConvIds : health_check(conv_id)) /\ UNCHANGED <<served, entry_vars>>

SpecHealth == InitHealth /\ [][NextHealth]_vars

Numerals == <<"0", "1", "2">>

\* float(field) does not raise ValueError
is_float(field) == \E i \in 1..Len(Numerals) : Numerals[i] = field

float(field) == (CHOOSE i \in 1..Len(Numerals) : Numerals[i] = field) - 1

\* SPEAKER <file_id> 1 <start> <duration> <NA> <NA> <speaker_label> <NA> <NA>
RttmLine(start, duration, speaker) ==
    <<"SPEAKER", "f", "1", start, duration, "<NA>", "<NA>", speaker, "<NA>", "<NA>">>

\* parse_rttm: any line that is not blank and cannot be read raises
\* (IndexError or ValueError), which ends the whole parse.
RECURSIVE parse_loop(_, _, _)
parse_loop(lines, i, segments) ==
    IF i > Len(lines) THEN [ok |-> TRUE, segments |-> segments]
    ELSE LET parts == lines[i] IN
         IF parts = <<>> THEN parse_loop(lines, i + 1, segments)
         ELSE IF \/ Len(parts) < 4
                 \/ ~is_float(parts[4])
                 \/ Len(parts) < 5
                 \/ ~is_float(parts[5])
                 \/ Len(parts) < 8
              THEN [ok |-> FALSE, segments |-> <<>>]
              ELSE parse_loop(lines, i + 1,
                       Append(segments,
                              RttmRecord(float(parts[4]), float(parts[5]), parts[8])))

parse_rttm(lines) == parse_loop(lines, 1, <<>>)

\* speaker_segments.setdefault(generic_speaker, []).append((start, end)):
\* the dictionary keeps its keys in the order of insertion.
setdefault_append(speaker_segments, generic_speaker, interval) ==
    IF \E k \in 1..Len(speaker_segments) :
           speaker_segments[k].speaker = generic_speaker
    THEN [k \in 1..Len(speaker_segments) |->
             IF speaker_segments[k].speaker = generic_speaker
             THEN [speaker_segments[k] EXCEPT !.segments = Append(@, interval)]
             ELSE speaker_segments[k]]
    ELSE Append(speaker_segments,
                [speaker |-> generic_speaker, segments |-> <<interval>>])

\* The grouping loop of create_speaker_audio_segments: start and duration are
\* read inside the try (a failure skips the line), the label is read after it
\* (a failure there is raised).
RECURSIVE group_loop(_, _, _)
group_loop(lines, i, speaker_segments) ==
    IF i > Len(lines) THEN [ok |-> TRUE, speaker_segments |-> speaker_segments]
    ELSE LET parts == lines[i] IN
         IF parts = <<>> THEN group_loop(lines, i + 1, speaker_segments)
         ELSE IF Len(parts) < 5 \/ ~is_float(parts[4]) \/ ~is_float(parts[5])
              THEN group_loop(lines, i + 1, speaker_segments)
              ELSE IF Len(parts) < 8
                   THEN [ok |-> FALSE, speaker_segments |-> <<>>]
                   ELSE group_loop(lines, i + 1,
                            setdefault_append(speaker_segments, parts[8],
                                <<float(parts[4]), float(parts[4]) + float(parts[5])>>))

group_by_speaker(lines) == group_loop(lines, 1, <<>>)

(***************************************************************************)
(* Comma-separated name strings.  A string is the sequence of its          *)
(* characters until it is used as a name.                                  *)
(***************************************************************************)
\* s.split(sep): "".split(",") is [""]
RECURSIVE split(_, _)
split(s, sep) ==
    IF s = <<>> THEN << <<>> >>
    ELSE LET rest == split(Tail(s), sep) IN
         IF Head(s) = sep THEN << <<>> >> \o rest
         ELSE << <<Head(s)>> \o Head(rest) >> \o Tail(rest)

\* The Python string of a sequence of characters.
RECURSIVE str(_)
str(chars) == IF chars = <<>> THEN "" ELSE Head(chars) \o str(Tail(chars))

\* [s.strip() for s in speakers.split(",") if s.strip()]
names_without_empty(speakers) ==
    LET pieces == SelectSeq(split(speakers, ","), LAMBDA s : strip(s) # <<>>)
    IN  [k \in 1..Len(pieces) |-> str(strip(pieces[k]))]

\* list(dict.fromkeys(names)): the first occurrence of each name, in order
RECURSIVE fromkeys(_)
fromkeys(names) ==
    IF names = <<>> THEN <<>>
    ELSE LET init == fromkeys(SubSeq(names, 1, Len(names) - 1))
             last == names[Len(names)]
         IN  IF \E k \in 1..Len(init) : init[k] = last THEN init
             ELSE Append(init, last)

(***************************************************************************)
(* The non-streaming endpoints.  Each request is one step: it loads the    *)
(* store, acts, saves, and answers.                                        *)
(***************************************************************************)
Device == "cpu"

\* What the clients send.
SpeakerStrings == { <<"A">>, <<"A", ",", "A">>, <<" ", ",">> }

\* Uploads: the media type, the extension of the file name, and whether the
\* WAV to MP3 export succeeds.
Uploads ==
    { <<"audio", "wav", TRUE>>, <<"audio", "wav", FALSE>>, <<"audio", "mp3", TRUE>>,
      <<"video", "wav", TRUE>>, <<"audio", "txt", TRUE>> }

\* What the models return: the RTTM lines pyannote writes, the segments
\* whisper returns.
DiarizationOutputs ==
    { <<>>,
      <<RttmLine("0", "1", "SPEAKER_00")>>,
      <<RttmLine("0", "1", "SPEAKER_00"), RttmLine("1", "1", "SPEAKER_01")>> }

TranscriptionOutputs ==
    { <<>>,
      <<[start |-> 0, end |-> 1, text |-> <<"h", "i">>],
        [start |-> 1, end |-> 2, text |-> <<"y", "o">>]>> }

put_folder(conv_id, folder) == [fs EXCEPT ![conv_id] = folder]

\* POST /conversation/initialize
initialize_conversation(conv_id) ==
    /\ IF conv_id \notin DOMAIN store
       THEN /\ store' = setitem(store, conv_id, NewConversation)
            /\ fs' = put_folder(conv_id, makedirs(fs[conv_id]))
       ELSE UNCHANGED <<store, fs>>
    /\ response' = Answer("initialize", conv_id, 200)
    /\ UNCHANGED <<run, now, pipeline_vars>>

\* GET /conversation/{conv_id}
get_conversation(conv_id) ==
    /\ response' = Answer("get", conv_id,
                          IF conv_id \in DOMAIN store THEN 200 ELSE 404)
    /\ UNCHANGED <<store, fs, run, now, pipeline_vars>>

\* PUT /conversation/{conv_id}/update-speakers
update_conversation_speakers(conv_id, speakers) ==
    /\ IF conv_id \notin DOMAIN store
       THEN /\ response' = Answer("update_speakers", conv_id, 404)
            /\ UNCHANGED store
       ELSE LET conversation == store[conv_id]
                speakers_list_ == fromkeys(names_without_empty(speakers))
                states == IF "states" \in DOMAIN conversation
                          THEN conversation.states ELSE <<>>
            IN  /\ store' = setitem(store, conv_id,
                       setitem(setitem(conversation, "speakers", speakers_list_),
                               "states",
                               setitem(states, "speakerAssignment",
                                       speakers_list_ # <<>>)))
                /\ response' = Answer("update_speakers", conv_id, 200)
    /\ UNCHANGED <<fs, run, now, pipeline_vars>>

\* An assignment that stores the list and leaves the flag as it is.
assign_speakers_NoFlag(conv_id, speakers) ==
    /\ IF conv_id \notin DOMAIN store
       THEN /\ response' = Answer("assign_speakers", conv_id, 404)
            /\ UNCHANGED store
       ELSE /\ store' = setitem(store, conv_id,
                            setitem(store[conv_id], "speakers",
                                    names_without_empty(speakers)))
            /\ response' = Answer("assign_speakers", conv_id, 200)
    /\ UNCHANGED <<fs, run, now, pipeline_vars>>

\* PUT /conversation/{conv_id}/assign-speakers; a record without "states"
\* raises KeyError before the save
assign_speakers(conv_id, speakers) ==
    /\ IF conv_id \notin DOMAIN store
       THEN /\ response' = Answer("assign_speakers", conv_id, 404)
            /\ UNCHANGED store
       ELSE LET conversation == store[conv_id]
                speakers_list_ == names_without_empty(speakers)
            IN  IF "states" \notin DOMAIN conversation
                THEN /\ response' = Answer("assign_speakers", conv_id, 500)
                     /\ UNCHANGED store
                ELSE /\ store' = setitem(store, conv_id,
                            setitem(setitem(conversation, "speakers", speakers_list_),
                                    "states",
                                    setitem(conversation.states, "speakerAssignment",
                                            speakers_list_ # <<>>)))
                     /\ response' = Answer("assign_speakers", conv_id, 200)
    /\ UNCHANGED <<fs, run, now, pipeline_vars>>

\* POST /conversation/upload_audio; converts: the WAV to MP3 export succeeds
upload_audio(conv_id, media_type, ext, converts) ==
    /\ IF media_type # "audio" \/ ext \notin {"wav", "mp3"}
       THEN /\ response' = Answer("upload_audio", conv_id, 400)
            /\ UNCHANGED <<store, fs>>
       ELSE IF conv_id \notin DOMAIN store
       THEN /\ response' = Answer("upload_audio", conv_id, 404)
            /\ UNCHANGED <<store, fs>>
       ELSE LET conversation == store[conv_id]
                folder == makedirs(fs[conv_id])
                written == IF ext = "wav" THEN [folder EXCEPT !.wav = TRUE]
                           ELSE [folder EXCEPT !.mp3 = TRUE]
            IN  IF ext = "wav" /\ ~converts
                THEN /\ fs' = put_folder(conv_id, written)
                     /\ response' = Answer("upload_audio", conv_id, 500)
                     /\ UNCHANGED store
                ELSE /\ fs' = put_folder(conv_id, [written EXCEPT !.mp3 = TRUE])
                     /\ IF "states" \notin DOMAIN conversation
                        THEN /\ response' = Answer("upload_audio", conv_id, 500)
                             /\ UNCHANGED store
                        ELSE /\ store' = setitem(store, conv_id,
                                    setitem(conversation, "states",
                                        setitem(conversation.states,
                                                "audioAvailable", TRUE)))
                             /\ response' = Answer("upload_audio", conv_id, 200)
    /\ UNCHANGED <<run, now, pipeline_vars>>

\* DELETE /conversation/{conv_id}
delete_conversation(conv_id) ==
    /\ IF conv_id \notin DOMAIN store
       THEN /\ response' = Answer("delete", conv_id, 404)
            /\ UNCHANGED <<store, fs>>
       ELSE /\ store' = without(store, conv_id)
            /\ fs' = put_folder(conv_id, NoFolder)
            /\ response' = Answer("delete", conv_id, 200)
    /\ UNCHANGED <<run, now, pipeline_vars>>

\* create_speaker_audio_segments: the folder it leaves behind, and whether
\* it returned (ok) or raised.  One file is exported per speaker group.
create_speaker_audio_segments(conv_folder) ==
    LET folder == [makedirs(conv_folder) EXCEPT !.segments_folder = TRUE]
        grouped == group_by_speaker(folder.rttm.content)
    IN  IF ~folder.rttm.exists THEN [ok |-> FALSE, folder |-> folder]
        ELSE IF ~grouped.ok THEN [ok |-> FALSE, folder |-> folder]
        ELSE IF ~audio_exists(folder) THEN [ok |-> FALSE, folder |-> folder]
        ELSE [ok |-> TRUE,
              folder |-> [folder EXCEPT
                             !.segment_mp3s = Len(grouped.speaker_segments)]]

\* GET /conversation/speaker-audios/{conv_id}: every exception, the 404 of a
\* missing conversation too, is caught and answered with 500.
get_speaker_audios(conv_id) ==
    /\ IF conv_id \notin DOMAIN store
       THEN /\ response' = Answer("speaker_audios", conv_id, 500)
            /\ UNCHANGED <<store, fs>>
       ELSE IF segments_exist(fs[conv_id])
       THEN /\ response' = Answer("speaker_audios", conv_id, 200)
            /\ UNCHANGED <<store, fs>>
       ELSE LET conversation == store[conv_id]
                created == create_speaker_audio_segments(fs[conv_id])
            IN  /\ fs' = put_folder(conv_id, created.folder)
                /\ IF ~created.ok \/ "states" \notin DOMAIN conversation
                   THEN /\ response' = Answer("speaker_audios", conv_id, 500)
                        /\ UNCHANGED store
                   ELSE /\ store' = setitem(store, conv_id,
                               setitem(conversation, "states",
                                   setitem(conversation.states,
                                           "speakerAudioSegments", TRUE)))
                        /\ response' = Answer("speaker_audios", conv_id, 200)
    /\ UNCHANGED <<run, now, pipeline_vars>>

\* The names conversation_merge remaps with (none: the remap is skipped).
merge_names(selected_speakers) ==
    IF selected_speakers # <<>> THEN names_without_empty(selected_speakers)
    ELSE <<>>

\* The merged segments conversation_merge computes.
merge_result(rttm_segments_, transcript_segments_, speakers_list_) ==
    LET combined == combine_transcript_and_rttm(transcript_segments_, rttm_segments_)
    IN  merge_consecutive_segments(
            IF speakers_list_ # <<>> THEN remap_speakers(combined, speakers_list_)
            ELSE combined)

\* f"{x:.2f}" for the whole seconds of the model.
Digits == <<"0", "1", "2", "3", "4", "5", "6", "7", "8", "9">>

RECURSIVE int_str(_)
int_str(n) ==
    IF n < 10 THEN Digits[n + 1]
    ELSE int_str(n \div 10) \o Digits[(n % 10) + 1]

format_2f(x) == int_str(x) \o ".00"

\* f"[{seg['start']:.2f}-{seg['end']:.2f}] {seg['speaker']}: {seg['text']}\n"
transcript_line(seg) ==
    "[" \o format_2f(seg.start) \o "-" \o format_2f(seg.end) \o "] "
        \o seg.speaker \o ": " \o str(seg.text) \o "\n"

transcript_lines(segments) ==
    [k \in 1..Len(segments) |-> transcript_line(segments[k])]

\* A file opened with "a" keeps what it holds.
write_merged_Append(folder, segments) ==
    [folder EXCEPT !.merged = File(folder.merged.content \o transcript_lines(segments))]

\* open(merged_file, "w") and one f.write per merged segment.
write_merged(folder, segments) ==
    [folder EXCEPT !.merged = File(transcript_lines(segments))]

\* POST /conversation/chatgeneration/{conv_id}: every exception, the 404s and
\* the 400 too, is caught and answered with 500.
conversation_merge(conv_id, selected_speakers) ==
    /\ IF conv_id \notin DOMAIN store
       THEN /\ response' = Answer("merge", conv_id, 500)
            /\ UNCHANGED fs
       ELSE LET folder == fs[conv_id]
                parsed == parse_rttm(folder.rttm.content)
            IN  IF \/ ~folder.rttm.exists
                   \/ ~folder.raw.exists
                   \/ ~parsed.ok
                   \/ folder.raw.content = <<>>
                THEN /\ response' = Answer("merge", conv_id, 500)
                     /\ UNCHANGED fs
                ELSE /\ fs' = put_folder(conv_id,
                            write_merged(folder,
                                merge_result(parsed.segments, folder.raw.content,
                                             merge_names(selected_speakers))))
                     /\ response' = Answer("merge", conv_id, 200)
    /\ UNCHANGED <<store, run, now, pipeline_vars>>

(***************************************************************************)
(* The streaming runs.  A generator runs from one yield to the next        *)
(* without interruption; other requests are served between two yields.     *)
(* run.conversations is the list the generator loaded when it started and  *)
(* saves again with every log entry; run.events are the events yielded to  *)
(* the caller.  A run that has ended stays visible until the next starts.  *)
(***************************************************************************)
\* The last timestamp of the model: no run starts its operation later.
MaxClock == 4

Tokens == {"provided", "environment", "none"}

InFlight == run.pc \notin {"idle", "ended"}

process_key(stage) ==
    IF stage = "diarization" THEN "diarizationProcess" ELSE "transcriptionProcess"

\* conversation.setdefault(key, {})
setdefault(d, k) == IF k \in DOMAIN d THEN d[k] ELSE <<>>

\* conversation[key][field] = value, in the loaded list
set_process(conversations, conv_id, key, field, value) ==
    LET conversation == conversations[conv_id] IN
    setitem(conversations, conv_id,
            setitem(conversation, key,
                    setitem(setdefault(conversation, key), field, value)))

\* Faulty variant of the reset: the log of the earlier run is kept.
reset_logs_Kept(conversations, conv_id, key) ==
    setitem(conversations, conv_id,
            setitem(conversations[conv_id], key,
                    setdefault(conversations[conv_id], key)))

\* conversation.setdefault(key, {}); conversation[key]["logs"] = []
reset_logs(conversations, conv_id, key) ==
    set_process(conversations, conv_id, key, "logs", <<>>)

\* Faulty variant of the append: the entry is put in front of the log.
append_log_Front(conversations, conv_id, key, entry) ==
    LET process == setdefault(conversations[conv_id], key)
        logs == IF "logs" \in DOMAIN process THEN process.logs ELSE <<>>
    IN  set_process(conversations, conv_id, key, "logs", <<entry>> \o logs)

\* conv_obj.setdefault(key, {}).setdefault("logs", []).append(entry)
append_log(conversations, conv_id, key, entry) ==
    LET process == setdefault(conversations[conv_id], key)
        logs == IF "logs" \in DOMAIN process THEN process.logs ELSE <<>>
    IN  set_process(conversations, conv_id, key, "logs", Append(logs, entry))

\* log_and_yield: the frame after the entry is appended and the event yielded;
\* the caller of this operator saves frame.conversations.
log_and_yield(frame, status, msg) ==
    LET entry == [status |-> status, message |-> msg] IN
    [frame EXCEPT
        !.conversations = append_log(@, frame.conv, process_key(frame.stage), entry),
        !.events = Append(@, entry)]

\* A flag write that starts from a new states dictionary.
update_conversation_state_Fresh(conversations, conv_id, state_name, value) ==
    IF conv_id \notin DOMAIN conversations THEN conversations
    ELSE setitem(conversations, conv_id,
                 setitem(conversations[conv_id], "states",
                         setitem([f \in Flags |-> FALSE], state_name, value)))

\* update_conversation_state: the list it saves
update_conversation_state(conversations, conv_id, state_name, value) ==
    IF conv_id \notin DOMAIN conversations THEN conversations
    ELSE LET conv == conversations[conv_id]
             states == IF "states" \in DOMAIN conv THEN conv.states
                       ELSE [diarization |-> FALSE, transcription |-> FALSE,
                             speakerAssignment |-> FALSE, report |-> FALSE,
                             stats |-> FALSE]
         IN  setitem(conversations, conv_id,
                     setitem(conv, "states", setitem(states, state_name, value)))

\* A frame that yields an event without logging it and returns.
not_initialized(stage, conv_id) ==
    [stage |-> stage, conv |-> conv_id, pc |-> "ended", conversations |-> store,
     events |-> <<[status |-> "error", message |-> "Conversation not initialized."]>>]

\* The frame after the conversations are loaded and the stage log is reset.
loaded(stage, conv_id) ==
    [stage |-> stage, conv |-> conv_id, pc |-> "loaded",
     conversations |-> reset_logs(store, conv_id, process_key(stage)),
     events |-> <<>>]

\* The process stats written when the operation begins.
started(frame) ==
    LET key == process_key(frame.stage) IN
    [frame EXCEPT !.conversations =
        set_process(set_process(@, frame.conv, key, "timeStarted", now),
                    frame.conv, key, "device", Device)]

completed(frame) ==
    [frame EXCEPT !.conversations =
        set_process(@, frame.conv, process_key(frame.stage), "timeCompleted", now)]

\* POST /diarize/{conv_id}, up to the first yield: load, reset the log,
\* select the token.  The request is answered with the stream (200).
diarize_begin(conv_id, token) ==
    /\ ~InFlight
    /\ IF conv_id \notin DOMAIN store
       THEN /\ run' = not_initialized("diarization", conv_id)
            /\ UNCHANGED store
       ELSE /\ run' = IF token = "provided"
                      THEN [log_and_yield(loaded("diarization", conv_id), "info",
                                "Hugging Face token provided; using overridden token.")
                            EXCEPT !.pc = "token"]
                      ELSE IF token = "environment"
                      THEN [log_and_yield(loaded("diarization", conv_id), "info",
                                "Hugging Face token obtained from environment.")
                            EXCEPT !.pc = "token"]
                      ELSE [log_and_yield(loaded("diarization", conv_id), "error",
                                "No Hugging Face token provided or found in environment.")
                            EXCEPT !.pc = "ended"]
            /\ store' = run'.conversations
    /\ response' = Answer("diarize", conv_id, 200)
    /\ UNCHANGED <<fs, now, pipeline_vars>>

\* ... to the yield of the device check: folder, audio file, process stats.
diarize_check_audio ==
    /\ run.stage = "diarization" /\ run.pc = "token"
    /\ now < MaxClock
    /\ fs' = put_folder(run.conv, makedirs(fs[run.conv]))
    /\ IF ~audio_exists(fs[run.conv])
       THEN /\ run' = [log_and_yield(run, "error",
                           "Audio file not found. Please upload it first.")
                       EXCEPT !.pc = "ended"]
            /\ UNCHANGED now
       ELSE /\ run' = [log_and_yield(started(run), "info", "Device check complete.")
                       EXCEPT !.pc = "device"]
            /\ now' = now + 1
    /\ store' = run'.conversations
    /\ UNCHANGED <<response, pipeline_vars>>

diarize_setup ==
    /\ run.stage = "diarization" /\ run.pc = "device"
    /\ run' = [log_and_yield(run, "info", "Setting up the pyannote pipeline...")
               EXCEPT !.pc = "setup"]
    /\ store' = run'.conversations
    /\ UNCHANGED <<fs, now, response, pipeline_vars>>

diarize_starting ==
    /\ run.stage = "diarization" /\ run.pc = "setup"
    /\ run' = [log_and_yield(run, "info", "Starting diarization...")
               EXCEPT !.pc = "starting"]
    /\ store' = run'.conversations
    /\ UNCHANGED <<fs, now, response, pipeline_vars>>

\* A model call that is tried again after it raised.
diarize_model_Retry(raises, output) ==
    /\ run.stage = "diarization" /\ run.pc = "starting"
    /\ IF raises \/ ~fs[run.conv].exists
       THEN /\ run' = log_and_yield(run, "error", "str(e)")
            /\ UNCHANGED fs
       ELSE /\ fs' = put_folder(run.conv, [fs[run.conv] EXCEPT !.rttm = File(output)])
            /\ run' = [log_and_yield(run, "success", "Diarization completed.")
                       EXCEPT !.pc = "completed"]
    /\ store' = run'.conversations
    /\ UNCHANGED <<now, response, pipeline_vars>>

\* The model call and the write of the RTTM file: the pipeline raises, or the
\* folder is gone when the file is opened, or the file is written.
diarize_model(raises, output) ==
    /\ run.stage = "diarization" /\ run.pc = "starting"
    /\ IF raises \/ ~fs[run.conv].exists
       THEN /\ run' = [log_and_yield(run, "error", "str(e)") EXCEPT !.pc = "ended"]
            /\ UNCHANGED fs
       ELSE /\ fs' = put_folder(run.conv, [fs[run.conv] EXCEPT !.rttm = File(output)])
            /\ run' = [log_and_yield(run, "success", "Diarization completed.")
                       EXCEPT !.pc = "completed"]
    /\ store' = run'.conversations
    /\ UNCHANGED <<now, response, pipeline_vars>>

diarize_files_saved ==
    /\ run.stage = "diarization" /\ run.pc = "completed"
    /\ run' = [log_and_yield(completed(run), "success", "Files saved to conversation.")
               EXCEPT !.pc = "saved"]
    /\ store' = run'.conversations
    /\ now' = now + 1
    /\ UNCHANGED <<fs, response, pipeline_vars>>

\* A run that ends without the flag write.
diarize_set_state_Skipped ==
    /\ run.stage = "diarization" /\ run.pc = "saved"
    /\ run' = [run EXCEPT !.pc = "ended"]
    /\ UNCHANGED <<store, fs, now, response, pipeline_vars>>

\* update_conversation_state(conv_id, "diarization", True): loads the store
\* again, sets the flag, saves.
diarize_set_state ==
    /\ run.stage = "diarization" /\ run.pc = "saved"
    /\ store' = update_conversation_state(store, run.conv, "diarization", TRUE)
    /\ run' = [run EXCEPT !.pc = "ended"]
    /\ UNCHANGED <<fs, now, response, pipeline_vars>>

\* POST /transcribe/{conv_id}, up to the first yield: load, reset the log,
\* folder, audio file, process stats.
transcribe_begin(conv_id) ==
    /\ ~InFlight
    /\ now < MaxClock
    /\ IF conv_id \notin DOMAIN store
       THEN /\ run' = not_initialized("transcription", conv_id)
            /\ UNCHANGED <<store, fs, now>>
       ELSE /\ fs' = put_folder(conv_id, makedirs(fs[conv_id]))
            /\ IF ~audio_exists(fs[conv_id])
               THEN /\ run' = [log_and_yield(loaded("transcription", conv_id), "error",
                                   "Audio file not found. Please upload it first.")
                               EXCEPT !.pc = "ended"]
                    /\ UNCHANGED now
               ELSE /\ run' = [log_and_yield(started(loaded("transcription", conv_id)),
                                             "info", "Device check complete.")
                               EXCEPT !.pc = "device"]
                    /\ now' = now + 1
            /\ store' = run'.conversations
    /\ response' = Answer("transcribe", conv_id, 200)
    /\ UNCHANGED pipeline_vars

transcribe_starting ==
    /\ run.stage = "transcription" /\ run.pc = "device"
    /\ run' = [log_and_yield(run, "info", "Starting transcription...")
               EXCEPT !.pc = "starting"]
    /\ store' = run'.conversations
    /\ UNCHANGED <<fs, now, response, pipeline_vars>>

\* The model call and the write of the raw transcript.
transcribe_model(raises, output) ==
    /\ run.stage = "transcription" /\ run.pc = "starting"
    /\ IF raises \/ ~fs[run.conv].exists
       THEN /\ run' = [log_and_yield(run, "error", "str(e)") EXCEPT !.pc = "ended"]
            /\ UNCHANGED fs
       ELSE /\ fs' = put_folder(run.conv, [fs[run.conv] EXCEPT !.raw = File(output)])
            /\ run' = [log_and_yield(run, "success", "Transcription completed.")
                       EXCEPT !.pc = "completed"]
    /\ store' = run'.conversations
    /\ UNCHANGED <<now, response, pipeline_vars>>

transcribe_saved ==
    /\ run.stage = "transcription" /\ run.pc = "completed"
    /\ run' = [log_and_yield(run, "success", "Transcript saved to conversation.")
               EXCEPT !.pc = "saved"]
    /\ store' = run'.conversations
    /\ UNCHANGED <<fs, now, response, pipeline_vars>>

\* timeCompleted, save, update_conversation_state(conv_id, "transcript", True)
transcribe_set_state ==
    /\ run.stage = "transcription" /\ run.pc = "saved"
    /\ run' = [completed(run) EXCEPT !.pc = "ended"]
    /\ store' = update_conversation_state(run'.conversations, run.conv,
                                          "transcript", TRUE)
    /\ now' = now + 1
    /\ UNCHANGED <<fs, response, pipeline_vars>>

(***************************************************************************)
(* The server.                                                             *)
(***************************************************************************)
\* A non-streaming request is served.
Request ==
    \E conv_id \in ConvIds :
        \/ initialize_conversation(conv_id)
        \/ get_conversation(conv_id)
        \/ \E speakers \in SpeakerStrings :
               update_conversation_speakers(conv_id, speakers)
        \/ \E speakers \in SpeakerStrings : assign_speakers(conv_id, speakers)
        \/ \E upload \in Uploads :
               upload_audio(conv_id, upload[1], upload[2], upload[3])
        \/ health_check(conv_id)
        \/ get_speaker_audios(conv_id)
        \/ \E selected_speakers \in SpeakerStrings \cup {<<>>} :
               conversation_merge(conv_id, selected_speakers)
        \/ delete_conversation(conv_id)

\* A streaming request starts, or the one in flight runs to its next yield.
Stream ==
    \/ \E conv_id \in ConvIds, token \in Tokens : diarize_begin(conv_id, token)
    \/ diarize_check_audio
    \/ diarize_setup
    \/ diarize_starting
    \/ \E raises \in BOOLEAN, output \in DiarizationOutputs :
           diarize_model(raises, output)
    \/ diarize_files_saved
    \/ diarize_set_state
    \/ \E conv_id \in ConvIds : transcribe_begin(conv_id)
    \/ transcribe_starting
    \/ \E raises \in BOOLEAN, output \in TranscriptionOutputs :
           transcribe_model(raises, output)
    \/ transcribe_saved
    \/ transcribe_set_state

InitServer ==
    /\ PipelineIdle
    /\ EntryIdle
    /\ StoreIdle

\* The requests that build the artifacts of a conversation, served one after
\* the other: no request arrives while a stream is being produced.
StageRequest ==
    \E conv_id \in ConvIds :
        \/ conv_id = "convA" /\ initialize_conversation(conv_id)
        \/ \E upload \in Uploads :
               upload_audio(conv_id, upload[1], upload[2], upload[3])
        \/ get_speaker_audios(conv_id)
        \/ delete_conversation(conv_id)

NextSeq ==
    ((~InFlight /\ StageRequest) \/ Stream) /\ UNCHANGED <<served, entry_vars>>

SpecSeq == InitServer /\ [][NextSeq]_vars

(***************************************************************************)
(* Properties of the stage flags and the stage logs.                       *)
(***************************************************************************)
\* The artifact a stage flag stands for is in the folder.
ArtifactExists(flag, folder) ==
    CASE flag = "audioAvailable" -> folder.wav \/ folder.mp3
      [] flag = "diarization" -> folder.rttm.exists
      [] flag = "transcript" -> folder.raw.exists
      [] flag = "speakerAudioSegments" ->
             folder.segments_folder /\ folder.segment_mp3s >= 1

StageFlags == {"audioAvailable", "diarization", "transcript", "speakerAudioSegments"}

\* The flag of the record is true.
FlagSet(conversations, c, flag) ==
    /\ c \in DOMAIN conversations
    /\ "states" \in DOMAIN conversations[c]
    /\ flag \in DOMAIN conversations[c].states
    /\ conversations[c].states[flag]

\* C12: when upload_audio, a diarization run, a transcription run or
\* get_speaker_audios turns its stage flag to true, the artifact of that flag
\* exists on disk at that moment (for speakerAudioSegments: at least one mp3).
C12_FlagSetImpliesArtifact ==
    [][\A c \in ConvIds : \A flag \in StageFlags :
          (~FlagSet(store, c, flag) /\ FlagSet(store', c, flag))
          => ArtifactExists(flag, fs'[c])]_vars

\* The flag a stage sets when a run succeeds.
stage_flag(stage) == IF stage = "diarization" THEN "diarization" ELSE "transcript"

\* The run has ended, and its last event was an error event.
EndedWithError ==
    /\ run.pc = "ended"
    /\ run.events # <<>>
    /\ run.events[Len(run.events)].status = "error"

\* C13: after a diarization or transcription run that ended with an error
\* event, the persisted flag of that stage is false, whatever it was before.
C13_FailureLeavesFlagFalse ==
    EndedWithError => ~FlagSet(store, run.conv, stage_flag(run.stage))

\* The persisted log of a stage of a conversation.
StageLog(conversations, c, stage) == conversations[c][process_key(stage)].logs

other_stage(stage) == IF stage = "diarization" THEN "transcription" ELSE "diarization"

\* The step is a step of a streaming run (its start, or its next yield), and
\* the run is on a conversation that is in the store.
RunStepOnExisting ==
    /\ run' # run
    /\ run'.conv \in DOMAIN store
    /\ run'.conv \in DOMAIN store'

\* C14: once a run on an existing conversation has emitted its first event,
\* the persisted log of its stage holds no entry of an earlier run (it has as
\* many entries as this run has yielded events), and no step of the run
\* changes the log of the other stage.
C14_LogResetPerRun ==
    [][RunStepOnExisting =>
          /\ Len(StageLog(store', run'.conv, run'.stage)) = Len(run'.events)
          /\ StageLog(store', run'.conv, other_stage(run'.stage))
               = StageLog(store, run'.conv, other_stage(run'.stage))]_vars

\* A second diarization run has emitted its first event after an earlier run
\* of the stage completed, and a transcription log is kept.
C14_Witness ==
    /\ run.stage = "diarization" /\ run.pc = "token"
    /\ run.conv \in DOMAIN store
    /\ store[run.conv].diarizationProcess.timeCompleted # NoTime
    /\ Len(store[run.conv].diarizationProcess.logs) = 1
    /\ store[run.conv].transcriptionProcess.logs # <<>>

\* No other request was answered since the stream of the run was opened.
NoRequestSince == response.op \in {"diarize", "transcribe"}

IsPrefix(s, t) == Len(s) <= Len(t) /\ SubSeq(t, 1, Len(s)) = s

\* C15: in a run on an existing conversation that no other writer of the
\* store interleaves with, the persisted stage log equals the sequence of
\* events delivered so far at every yield and at the end of the run, and
\* within the run the log only grows at its end.
C15_EventsLoggedInOrder ==
    [][(RunStepOnExisting /\ NoRequestSince') =>
          /\ StageLog(store', run'.conv, run'.stage) = run'.events
          /\ InFlight => IsPrefix(StageLog(store, run'.conv, run'.stage),
                                  StageLog(store', run'.conv, run'.stage))]_vars

\* A diarization run has delivered its six events and ended with its log
\* equal to them; the transcription log keeps the three entries of a failed run.
C15_Witness ==
    /\ run.pc = "ended"
    /\ NoRequestSince
    /\ run.conv \in DOMAIN store
    /\ Len(run.events) = 6
    /\ StageLog(store, run.conv, run.stage) = run.events
    /\ Len(StageLog(store, run.conv, other_stage(run.stage))) = 3

(***************************************************************************)
(* The server with requests arriving at any time: a request is served      *)
(* between two yields of the stream in flight.  A session is a bounded     *)
(* number of requests; the yields of a stream are not counted.             *)
(***************************************************************************)
MaxRequests == 4

ServerRequest ==
    \E conv_id \in ConvIds :
        \/ initialize_conversation(conv_id)
        \/ \E upload \in Uploads :
               upload_audio(conv_id, upload[1], upload[2], upload[3])
        \/ health_check(conv_id)
        \/ \E speakers \in SpeakerStrings : assign_speakers(conv_id, speakers)
        \/ delete_conversation(conv_id)

\* A streaming request is opened.
StreamBegin ==
    \/ \E conv_id \in ConvIds, token \in Tokens : diarize_begin(conv_id, token)
    \/ \E conv_id \in ConvIds : transcribe_begin(conv_id)

\* The stream in flight runs to its next yield.
StreamStep ==
    \/ diarize_check_audio
    \/ diarize_setup
    \/ diarize_starting
    \/ \E raises \in BOOLEAN, output \in DiarizationOutputs :
           diarize_model(raises, output)
    \/ diarize_files_saved
    \/ diarize_set_state
    \/ transcribe_starting
    \/ \E raises \in BOOLEAN, output \in TranscriptionOutputs :
           transcribe_model(raises, output)
    \/ transcribe_saved
    \/ transcribe_set_state

NextServer ==
    /\ \/ /\ served < MaxRequests
          /\ ServerRequest \/ StreamBegin
          /\ served' = served + 1
       \/ StreamStep /\ UNCHANGED served
    /\ UNCHANGED entry_vars

SpecServer == InitServer /\ [][NextServer]_vars

\* C16: a record that is in the store is absent after a step only if the step
\* is the delete request for that conversation, whatever requests and yields
\* of a stream interleave.
C16_NoSilentDeletion ==
    [][\A c \in ConvIds :
          (c \in DOMAIN store /\ c \notin DOMAIN store') => delete_conversation(c)]_vars

(***************************************************************************)
(* The non-streaming endpoints on a conversation whose pipeline stages     *)
(* have been run or not: convA is stored with any combination of audio,    *)
(* RTTM file and raw transcript, convB is not stored.                      *)
(***************************************************************************)
StagedFolders ==
    { [NoFolder EXCEPT !.exists = TRUE, !.mp3 = m, !.rttm = r, !.raw = t] :
        m \in BOOLEAN,
        r \in {NoFile} \cup {File(d) : d \in DiarizationOutputs},
        t \in {NoFile} \cup {File(d) : d \in TranscriptionOutputs} }

InitRequests ==
    /\ PipelineIdle
    /\ EntryIdle
    /\ \E folder \in StagedFolders :
         /\ fs = [c \in ConvIds |-> IF c = "convA" THEN folder ELSE NoFolder]
         /\ store = setitem(<<>>, "convA",
                            setitem(NewConversation, "states",
                                    health_states(NewConversation, folder)))
    /\ run = NoRun
    /\ now = 1
    /\ response = NoResponse
    /\ served = 0

NextRequests ==
    /\ served < MaxRequests
    /\ Request
    /\ served' = served + 1
    /\ UNCHANGED entry_vars

SpecRequests == InitRequests /\ [][NextRequests]_vars

\* The operations that look the conversation up before anything else.
LookupOps == {"get", "update_speakers", "assign_speakers", "health_check",
              "upload_audio", "delete", "merge", "speaker_audios"}

\* The request answered by the step was made with conversation id c.
Answered(c) == response'.conv = c /\ response'.op \in LookupOps

\* upload_audio validates the media type and the file name before the lookup.
Rejected == response'.op = "upload_audio" /\ response'.status = 400

\* C17: a non-streaming operation called with an id that is not in the store
\* answers 404 and changes neither the store nor the filesystem; so does the
\* merge of a stored conversation whose RTTM file or raw transcript is absent.
C17_NotFoundIs404 ==
    [][\A c \in ConvIds :
          (/\ Answered(c)
           /\ ~Rejected
           /\ \/ c \notin DOMAIN store
              \/ /\ response'.op = "merge"
                 /\ ~fs[c].rttm.exists \/ ~fs[c].raw.exists)
          => (response'.status = 404 /\ store' = store /\ fs' = fs)]_vars

(***************************************************************************)
(* The two RTTM parsers on the same file.                                  *)
(***************************************************************************)
MaxLines == 2

\* Lines of an RTTM file: the well-formed ones, the blank line, lines cut
\* short after 3, 4, 5 and 7 fields, and lines whose start or duration is
\* not a number.
RttmLines ==
    LET wellformed == { RttmLine(s, "1", sp) :
                          s \in {"0", "1"}, sp \in {"SPEAKER_00", "SPEAKER_01"} }
        short == { SubSeq(RttmLine("0", "1", "SPEAKER_00"), 1, n) : n \in {3, 4, 5, 7} }
    IN  wellformed \cup short
          \cup { <<>>, RttmLine("x", "1", "SPEAKER_00"), RttmLine("0", "x", "SPEAKER_01") }

InitParse ==
    /\ PipelineIdle
    /\ StoreIdle
    /\ rttm_file \in SeqsUpTo(RttmLines, MaxLines)
    /\ rttm_parsed = NotRun
    /\ rttm_grouped = NotRun
    /\ names_field = <<>>
    /\ process_output = NotRun

\* rttm_segments = parse_rttm(rttm_file), or the exception it raises
strict_parse ==
    /\ ~rttm_parsed.done
    /\ rttm_parsed' = LET r == parse_rttm(rttm_file)
                      IN  [done |-> TRUE, ok |-> r.ok, segments |-> r.segments]
    /\ UNCHANGED <<rttm_file, rttm_grouped, names_field, process_output>>
    /\ UNCHANGED <<pipeline_vars, store_vars>>

\* the grouping loop of create_speaker_audio_segments, or the exception it raises
lenient_group ==
    /\ ~rttm_grouped.done
    /\ rttm_grouped' = LET r == group_by_speaker(rttm_file)
                       IN  [done |-> TRUE, ok |-> r.ok,
                            speaker_segments |-> r.speaker_segments]
    /\ UNCHANGED <<rttm_file, rttm_parsed, names_field, process_output>>
    /\ UNCHANGED <<pipeline_vars, store_vars>>

NextParse == strict_parse \/ lenient_group

SpecParse == InitParse /\ [][NextParse]_vars

\* A line with its eight fields and a numeric start and duration.
WellFormedLine(line) ==
    Len(line) >= 8 /\ is_float(line[4]) /\ is_float(line[5])

\* A line that is not blank and not well-formed.
UnparsableLine(line) == line # <<>> /\ ~WellFormedLine(line)

\* The interval and the speaker a well-formed line stands for.
LineTriple(line) ==
    <<float(line[4]), float(line[4]) + float(line[5]), line[8]>>

\* The intervals of a speaker, in the order of the lines of the file.
IntervalsOfSpeaker(lines, sp) ==
    LET own == SelectSeq(lines, LAMBDA l : WellFormedLine(l) /\ l[8] = sp)
    IN  [k \in 1..Len(own) |-> <<LineTriple(own[k])[1], LineTriple(own[k])[2]>>]

\* The intervals the grouping holds for a speaker.
GroupedIntervals(groups, sp) ==
    IF \E k \in 1..Len(groups) : groups[k].speaker = sp
    THEN groups[CHOOSE k \in 1..Len(groups) : groups[k].speaker = sp].segments
    ELSE <<>>

LabelsIn(lines) == { l[8] : l \in { lines[k] : k \in {j \in 1..Len(lines) : Len(lines[j]) >= 8} } }

\* C18: on a file with an unparsable line parse_rttm fails, while the
\* grouping does not fail and holds exactly the intervals of the other lines;
\* on a file of well-formed lines both hold the same intervals.
C18_StrictAndLenientParsing ==
    /\ (rttm_parsed.done /\ \E k \in 1..Len(rttm_file) : UnparsableLine(rttm_file[k]))
       => ~rttm_parsed.ok
    /\ rttm_grouped.done
       => /\ rttm_grouped.ok
          /\ \A sp \in LabelsIn(rttm_file) :
                GroupedIntervals(rttm_grouped.speaker_segments, sp)
                  = IntervalsOfSpeaker(rttm_file, sp)
    /\ (/\ rttm_parsed.done /\ rttm_grouped.done
        /\ \A k \in 1..Len(rttm_file) : WellFormedLine(rttm_file[k]))
       => /\ rttm_parsed.ok /\ rttm_grouped.ok
          /\ { <<seg.start, seg.end, seg.speaker>> :
                   seg \in { rttm_parsed.segments[k] : k \in 1..Len(rttm_parsed.segments) } }
             = { LineTriple(rttm_file[k]) : k \in 1..Len(rttm_file) }

ProcessKeys == {"diarizationProcess", "transcriptionProcess"}

\* C19: timeCompleted is written only by a run that ends successfully and a
\* failed run leaves it as it was, so that once the runs are over a
\* timeCompleted that is not null is never earlier than timeStarted.
C19_CompletedNotBeforeStarted ==
    ~InFlight =>
        \A c \in DOMAIN store : \A key \in ProcessKeys :
            store[c][key].timeCompleted # NoTime
            => store[c][key].timeCompleted >= store[c][key].timeStarted

(***************************************************************************)
(* The two entry points of the merge engine on the same inputs: the        *)
(* one-shot /process endpoint (api.py) and the merge endpoint of a         *)
(* conversation.  The models of /process return what convA has on disk.    *)
(***************************************************************************)
MaxNameLen == 4

NameChars == {"A", "B", ",", " "}

\* [s.strip() for s in speaker_names.split(",")] if speaker_names else []
process_names(speaker_names) ==
    IF speaker_names # <<>>
    THEN LET pieces == split(speaker_names, ",")
         IN  [k \in 1..Len(pieces) |-> str(strip(pieces[k]))]
    ELSE <<>>

\* POST /process, from the outputs of the two models to the last event of
\* the stream: an error event when the transcript has no segment or when
\* parse_rttm raises, the merged transcript otherwise.
process_audio(rttm_lines, segments, speaker_names) ==
    /\ ~process_output.done
    /\ process_output' =
         LET rttm == parse_rttm(rttm_lines)
             speakers_list_ == process_names(speaker_names)
         IN  IF segments = <<>> \/ ~rttm.ok
             THEN [done |-> TRUE, ok |-> FALSE, remapped |-> FALSE,
                   merged_transcript |-> <<>>]
             ELSE [done |-> TRUE, ok |-> TRUE,
                   remapped |-> speakers_list_ # <<>>,
                   merged_transcript |->
                       merge_result(rttm.segments, segments, speakers_list_)]
    /\ UNCHANGED <<rttm_file, rttm_parsed, rttm_grouped, names_field>>
    /\ UNCHANGED <<pipeline_vars, store_vars>>

InitEntry ==
    /\ PipelineIdle
    /\ \E lines \in DiarizationOutputs, segments \in TranscriptionOutputs :
         LET folder == [NoFolder EXCEPT !.exists = TRUE, !.mp3 = TRUE,
                                        !.rttm = File(lines), !.raw = File(segments)]
         IN  /\ fs = [c \in ConvIds |-> IF c = "convA" THEN folder ELSE NoFolder]
             /\ store = setitem(<<>>, "convA",
                                setitem(NewConversation, "states",
                                        health_states(NewConversation, folder)))
    /\ run = NoRun
    /\ now = 1
    /\ response = NoResponse
    /\ served = 0
    /\ rttm_file = <<>>
    /\ rttm_parsed = NotRun
    /\ rttm_grouped = NotRun
    /\ names_field \in SeqsUpTo(NameChars, MaxNameLen)
    /\ process_output = NotRun

NextEntry ==
    \/ /\ response.op # "merge"
       /\ conversation_merge("convA", names_field)
       /\ UNCHANGED <<served, entry_vars>>
    \/ process_audio(fs["convA"].rttm.content, fs["convA"].raw.content, names_field)

SpecEntry == InitEntry /\ [][NextEntry]_vars

\* C20: for the same intervals, segments and name string, /process and the
\* merge endpoint both fail or both succeed with the same merged segments,
\* and /process remaps only with a list of names that is not empty.
C20_EntryPointsAgree ==
    (process_output.done /\ response.op = "merge")
    => /\ process_output.ok <=> response.status = 200
       /\ process_output.ok
          => transcript_lines(process_output.merged_transcript)
               = fs["convA"].merged.content
       /\ process_output.remapped => process_names(names_field) # <<>>

(***************************************************************************)
(* The merge endpoint against whatever the conversation folder holds: the  *)
(* RTTM file and the raw transcript present or not, empty, well-formed or  *)
(* not, and an older merged_transcript.txt present or not.                 *)
(***************************************************************************)
\* What an earlier merge left in merged_transcript.txt.
OldMerged ==
    File(<<"[0.00-1.00] Old: a\n", "[1.00-2.00] Older: b\n", "[2.00-3.00] Old: c\n">>)

\* The RTTM files on disk: pyannote's outputs, and files that do not parse.
RttmFilesOnDisk ==
    {NoFile} \cup { File(d) : d \in DiarizationOutputs }
      \cup { File(<<RttmLine("0", "1", "SPEAKER_00"),
                    SubSeq(RttmLine("1", "1", "SPEAKER_01"), 1, 5)>>),
             File(<<RttmLine("x", "1", "SPEAKER_00")>>),
             File(<<<<>>, RttmLine("1", "1", "SPEAKER_01")>>) }

MergeFolders ==
    { [NoFolder EXCEPT !.exists = TRUE, !.mp3 = TRUE, !.rttm = r, !.raw = t,
                       !.merged = g] :
        r \in RttmFilesOnDisk,
        t \in {NoFile} \cup { File(d) : d \in TranscriptionOutputs },
        g \in {NoFile, OldMerged} }

InitMerge ==
    /\ PipelineIdle
    /\ EntryIdle
    /\ \E folder \in MergeFolders :
         /\ fs = [c \in ConvIds |-> IF c = "convA" THEN folder ELSE NoFolder]
         /\ store = setitem(<<>>, "convA",
                            setitem(NewConversation, "states",
                                    health_states(NewConversation, folder)))
    /\ run = NoRun
    /\ now = 1
    /\ response = NoResponse
    /\ served = 0

MergeRequest ==
    \E conv_id \in ConvIds :
        \/ \E selected_speakers \in SpeakerStrings \cup {<<>>} :
               conversation_merge(conv_id, selected_speakers)
        \/ initialize_conversation(conv_id)
        \/ delete_conversation(conv_id)

NextMerge ==
    /\ served < MaxRequests
    /\ MergeRequest
    /\ served' = served + 1
    /\ UNCHANGED entry_vars

SpecMerge == InitMerge /\ [][NextMerge]_vars

\* The conditions under which the merge endpoint may write.
MergeInputsOk(c) ==
    /\ c \in DOMAIN store
    /\ fs[c].rttm.exists
    /\ fs[c].raw.exists
    /\ \A k \in 1..Len(fs[c].rttm.content) : ~UnparsableLine(fs[c].rttm.content[k])
    /\ fs[c].raw.content # <<>>

MergeAnswered == response'.op = "merge"

\* C21: a merge request writes merged_transcript.txt only when the
\* conversation exists, both input files exist, every RTTM line parses and
\* the transcript has a segment; otherwise it answers with an error and the
\* folder, an older merged_transcript.txt included, is as before.  After a
\* success the file holds one line per merged segment of this run and none
\* of the lines it held before.
C21_MergeGatedAndOverwriting ==
    [][MergeAnswered =>
        LET c == response'.conv IN
        IF MergeInputsOk(c)
        THEN /\ response'.status = 200
             /\ fs'[c].merged.exists
             /\ \E names \in SeqsUpTo({"A"}, 2) :
                  LET merged == merge_result(parse_rttm(fs[c].rttm.content).segments,
                                             fs[c].raw.content, names)
                  IN  /\ Len(fs'[c].merged.content) = Len(merged)
                      /\ \A k \in 1..Len(merged) :
                           fs'[c].merged.content[k] = transcript_line(merged[k])
             /\ \A k \in 1..Len(fs'[c].merged.content) :
                  \A j \in 1..Len(OldMerged.content) :
                      fs'[c].merged.content[k] # OldMerged.content[j]
        ELSE /\ response'.status >= 400
             /\ fs' = fs]_vars

\* A first merge request has succeeded and the file holds the two lines of
\* this run, whether or not an older transcript of three lines was there.
C21_Witness ==
    /\ response = Answer("merge", "convA", 200)
    /\ fs["convA"].merged.content
         = <<"[0.00-1.00] SPEAKER_00: hi\n", "[1.00-2.00] SPEAKER_01: yo\n">>
    /\ served = 1

\* The four artifact flags of a states dictionary say what the folder holds.
FlagsMatchFolder(states, folder) ==
    /\ {"audioAvailable", "diarization", "transcript", "speakerAudioSegments"}
         \subseteq DOMAIN states
    /\ states.audioAvailable <=> (folder.wav \/ folder.mp3)
    /\ states.diarization <=> folder.rttm.exists
    /\ states.transcript <=> folder.raw.exists
    /\ states.speakerAudioSegments <=> (folder.segments_folder /\ folder.segment_mp3s >= 1)

\* The record is as a health check of the present folder leaves it.
AlreadyChecked(c) ==
    /\ "states" \in DOMAIN store[c]
    /\ FlagsMatchFolder(store[c].states, fs[c])
    /\ "speakerAssignment" \in DOMAIN store[c].states
    /\ store[c].states.speakerAssignment <=> (store[c].speakers # <<>>)

\* C22: after a health check of an existing conversation, whatever flags
\* were persisted and whatever the folder holds, the four artifact flags of
\* the persisted record and of the returned states say what is on disk; a
\* health check of a record that an earlier one has brought into that state
\* changes neither the record nor the returned states.
C22_HealthCheckSelfHealing ==
    [][(response'.op = "health_check" /\ response'.status = 200) =>
        LET c == response'.conv IN
        /\ FlagsMatchFolder(store'[c].states, fs'[c])
        /\ FlagsMatchFolder(response'.states, fs'[c])
        /\ fs' = fs
        /\ AlreadyChecked(c) => (store' = store /\ response'.states = store[c].states)]_vars

\* A health check has run on a folder with an RTTM file, no raw transcript
\* and a segments folder without mp3: the three flags are true, false and
\* false in the record and in the answer.
C22_Witness ==
    /\ response.op = "health_check" /\ response.status = 200
    /\ response.conv = "convA"
    /\ fs["convA"].rttm.exists /\ ~fs["convA"].raw.exists
    /\ fs["convA"].segments_folder /\ fs["convA"].segment_mp3s = 0
    /\ store["convA"].states.diarization
    /\ ~store["convA"].states.transcript
    /\ ~store["convA"].states.speakerAudioSegments
    /\ response.states = store["convA"].states

\* The events that report the outcome of the call of the external model.
ModelOutcomes == {"Diarization completed.", "Transcription completed.", "str(e)"}

\* The positions of a run before the external model is called.
BeforeModel == {"loaded", "token", "device", "setup", "starting"}

\* C23: in the events a diarization or transcription run has emitted, an
\* error event is the last one, a success event is followed by success
\* events only (so no info event after a success, and never both a success
\* and an error), and the outcome of the model call is reported at most
\* once, and not before the run has reached the call.
C23_EventStreamShape ==
    LET events == run.events IN
    /\ \A i, j \in 1..Len(events) :
         i < j => /\ events[i].status # "error"
                  /\ events[i].status = "success" => events[j].status = "success"
    /\ Cardinality({ i \in 1..Len(events) : events[i].message \in ModelOutcomes }) <= 1
    /\ run.pc \in BeforeModel
         => \A i \in 1..Len(events) : events[i].message \notin ModelOutcomes

\* A diarization run has ended after its six events, three info and the two
\* success events last; a request was served while it was in flight.
C23_Witness ==
    /\ run.stage = "diarization" /\ run.pc = "ended"
    /\ Len(run.events) = 6
    /\ run.events[5].status = "success" /\ run.events[6].status = "success"
    /\ run.events[4].status = "info"
    /\ response.op \notin {"diarize", "transcribe"}

\* C24: a successful delete request removes the record and the folder of its
\* conversation and leaves the other records as they are; a record or a
\* folder that is absent comes back only by an initialize request for that
\* conversation, whatever requests and yields of a stream interleave.
C24_DeletionCompleteAndLasting ==
    [][\A c \in ConvIds :
          /\ (delete_conversation(c) /\ c \in DOMAIN store)
               => /\ c \notin DOMAIN store'
                  /\ fs'[c] = NoFolder
                  /\ \A d \in DOMAIN store \ {c} :
                       d \in DOMAIN store' /\ store'[d] = store[d]
          /\ (c \notin DOMAIN store /\ c \in DOMAIN store')
               => initialize_conversation(c)
          /\ (~fs[c].exists /\ fs'[c].exists)
               => initialize_conversation(c)]_vars

(***************************************************************************)
(* The two endpoints that create a conversation record, with the requests  *)
(* that read or rewrite the states of the record afterwards.               *)
(***************************************************************************)
\* POST /conversations: a duplicate id is refused with 400; the record has
\* no "states" and no process dictionaries.
create_conversation(id, speakers) ==
    /\ IF id \in DOMAIN store
       THEN /\ response' = Answer("create", id, 400)
            /\ UNCHANGED <<store, fs>>
       ELSE /\ store' = setitem(store, id, [speakers |-> names_without_empty(speakers)])
            /\ fs' = put_folder(id, makedirs(fs[id]))
            /\ response' = Answer("create", id, 200)
    /\ UNCHANGED <<run, now, pipeline_vars>>

CreateRequest ==
    \E conv_id \in ConvIds :
        \/ initialize_conversation(conv_id)
        \/ \E speakers \in SpeakerStrings : create_conversation(conv_id, speakers)
        \/ \E speakers \in SpeakerStrings : assign_speakers(conv_id, speakers)
        \/ \E speakers \in SpeakerStrings :
               update_conversation_speakers(conv_id, speakers)
        \/ \E upload \in Uploads :
               upload_audio(conv_id, upload[1], upload[2], upload[3])
        \/ health_check(conv_id)
        \/ delete_conversation(conv_id)

NextCreate ==
    /\ served < MaxRequests
    /\ CreateRequest
    /\ served' = served + 1
    /\ UNCHANGED entry_vars

SpecCreate == InitServer /\ [][NextCreate]_vars

\* A record as the spec wants it created: the seven flags present and false,
\* both process logs empty.
FreshRecord(conversation) ==
    /\ "states" \in DOMAIN conversation
    /\ DOMAIN conversation.states = Flags
    /\ \A f \in Flags : ~conversation.states[f]
    /\ \A key \in {"diarizationProcess", "transcriptionProcess"} :
         key \in DOMAIN conversation /\ conversation[key].logs = <<>>

\* C25: a request that adds a record to the store adds it with the seven
\* flags present and false and with empty process logs; an initialize
\* request for an id that is in the store leaves the store as it is.
C25_CreatedWithAllFlagsFalse ==
    [][\A c \in ConvIds :
          /\ (c \notin DOMAIN store /\ c \in DOMAIN store') => FreshRecord(store'[c])
          /\ (initialize_conversation(c) /\ c \in DOMAIN store) => store' = store]_vars

(***************************************************************************)
(* Runs on conversations that stay in the store: the requests that create  *)
(* and rewrite a record are served between the yields of a stream, no      *)
(* conversation is deleted.  A run is opened only while the clock of the   *)
(* model leaves room for its timestamps.                                   *)
(***************************************************************************)
KeepingRequest ==
    \E conv_id \in ConvIds :
        \/ initialize_conversation(conv_id)
        \/ \E speakers \in SpeakerStrings : assign_speakers(conv_id, speakers)
        \/ \E speakers \in SpeakerStrings :
               update_conversation_speakers(conv_id, speakers)
        \/ upload_audio(conv_id, "audio", "wav", TRUE)
        \/ health_check(conv_id)

KeepingBegin == now < MaxClock /\ StreamBegin

\* A request is served or a stream is opened.
Serve ==
    /\ served < MaxRequests
    /\ KeepingRequest \/ KeepingBegin
    /\ served' = served + 1
    /\ UNCHANGED entry_vars

\* The caller reads the next event of the stream in flight.
Consume == StreamStep /\ UNCHANGED <<served, entry_vars>>

NextKeeping == Serve \/ Consume

SpecKeeping == InitServer /\ [][NextKeeping]_vars

\* The caller keeps reading, and the model call returns or raises.
SpecLive == SpecKeeping /\ WF_vars(Consume)

\* The run has ended and its last event is a success or an error event.
EndedWithTerminalEvent ==
    /\ run.pc = "ended"
    /\ run.events # <<>>
    /\ run.events[Len(run.events)].status \in {"success", "error"}

\* The run of a stage on a conversation has emitted its last success event.
LastSuccessEmitted(c, stage) ==
    /\ run.conv = c /\ run.stage = stage
    /\ run.pc = "saved"
    /\ run.events[Len(run.events)].status = "success"

C27_AssignmentFlagMatchesSpeakers ==
    \A c \in DOMAIN store :
        /\ "speakerAssignment" \in DOMAIN store[c].states
        /\ store[c].states.speakerAssignment <=> (store[c].speakers # <<>>)

\* Speakers were assigned while a run was in flight, after its last save:
\* the store holds the list with the flag true, the copy of the run still
\* holds the empty list.
C27_Witness ==
    /\ InFlight /\ run.conv = "convA"
    /\ "convA" \in DOMAIN store
    /\ store["convA"].speakers # <<>>
    /\ store["convA"].states.speakerAssignment
    /\ run.conversations["convA"].speakers = <<>>
    /\ Len(run.events) >= 2

\* The names are pairwise distinct.
PairwiseDistinct(names) ==
    \A i, j \in 1..Len(names) : names[i] = names[j] => i = j

\* The labels of a list that are beyond the names and keep their own label.
KeptLabels(list, names) ==
    { list[i].speaker : i \in { k \in 1..Len(list) :
          FirstAppearanceRank(list, list[k].speaker) > Len(names) } }

\* The positions where a list of segments starts a new run of one speaker.
RunStarts(list) ==
    { i \in 1..Len(list) : i = 1 \/ list[i].speaker # list[i - 1].speaker }

\* C28: the remap step leaves the number of segments, their order and every
\* start, end and text as they are, and gives segments of equal label equal
\* labels; when the names are pairwise distinct and none of them is a label
\* that keeps itself, segments of different labels get different labels,
\* and the merger forms the same runs from the remapped list as from the
\* list before the remap.
C28_RemapFrame ==
    [][pc' = "remapped" =>
         LET before == combined_segments
             after == combined_segments'
             names == speakers_list
         IN  /\ Len(after) = Len(before)
             /\ TriplesOf(after) = TriplesOf(before)
             /\ \A i, j \in 1..Len(before) :
                  before[i].speaker = before[j].speaker
                    => after[i].speaker = after[j].speaker
             /\ (PairwiseDistinct(names)
                 /\ \A k \in 1..Len(names) : names[k] \notin KeptLabels(before, names))
                  => /\ \A i, j \in 1..Len(before) :
                          after[i].speaker = after[j].speaker
                            => before[i].speaker = before[j].speaker
                     /\ RunStarts(after) = RunStarts(before)
                     /\ TriplesOf(merge_consecutive_segments(after))
                          = TriplesOf(merge_consecutive_segments(before))]_vars

\* Three segments of two speakers and a gap, two distinct names: the labels
\* after the remap are Alice, Bob and the kept "Unknown".
C28_Witness ==
    /\ pc = "remapped"
    /\ speakers_list = <<"Alice", "Bob">>
    /\ SpeakersOf(combined_segments) = <<"Alice", "Bob", "Unknown">>
    /\ Len(rttm_segments) = 2

\* The segments of a list whose label is not "Unknown".
WithoutUnknown(list) == SelectSeq(list, LAMBDA seg : seg.speaker # "Unknown")

\* The label a remap with the names gives to the segments of label l.
RemappedLabel(list, names, l) ==
    LET i == CHOOSE k \in 1..Len(list) : list[k].speaker = l
    IN  remap_speakers(list, names)[i].speaker

\* The diarization speakers whose first segment comes after the first
\* "Unknown" segment.
LaterSpeakers(list) ==
    { list[i].speaker : i \in { j \in 1..Len(list) :
          /\ list[j].speaker # "Unknown"
          /\ FirstAppearanceRank(list, list[j].speaker)
               > FirstAppearanceRank(list, "Unknown") } }

HasUnknown(list) == \E i \in 1..Len(list) : list[i].speaker = "Unknown"

\* C29 as stated: when "Unknown" is the k-th distinct label and at least k
\* names are supplied, every "Unknown" segment gets the k-th name, and every
\* later speaker that would get the name at position p without the
\* "Unknown" segments gets the name at position p + 1.
C29_UnknownShiftsLaterNames ==
    [][(pc' = "remapped" /\ HasUnknown(combined_segments)
        /\ FirstAppearanceRank(combined_segments, "Unknown") <= Len(speakers_list)) =>
         LET before == combined_segments
             after == combined_segments'
             names == speakers_list
             k == FirstAppearanceRank(before, "Unknown")
         IN  /\ \A i \in 1..Len(before) :
                  before[i].speaker = "Unknown" => after[i].speaker = names[k]
             /\ \A l \in LaterSpeakers(before) :
                  LET p == FirstAppearanceRank(WithoutUnknown(before), l)
                  IN  p <= Len(names)
                        => /\ p + 1 <= Len(names)
                           /\ \A i \in 1..Len(before) :
                                before[i].speaker = l => after[i].speaker = names[p + 1]]_vars

\* C29 with the end of the name list taken into account: a later speaker
\* gets the name at position p + 1 when there is one and keeps its own label
\* when the names are used up, p being the position of the name it gets
\* from a remap of the list without the "Unknown" segments.
C29_UnknownShiftsWhileNamesLast ==
    [][(pc' = "remapped" /\ HasUnknown(combined_segments)
        /\ FirstAppearanceRank(combined_segments, "Unknown") <= Len(speakers_list)) =>
         LET before == combined_segments
             after == combined_segments'
             names == speakers_list
             k == FirstAppearanceRank(before, "Unknown")
         IN  /\ \A i \in 1..Len(before) :
                  before[i].speaker = "Unknown" => after[i].speaker = names[k]
             /\ \A l \in LaterSpeakers(before) :
                  LET p == FirstAppearanceRank(WithoutUnknown(before), l)
                  IN  /\ p <= Len(names)
                        => RemappedLabel(WithoutUnknown(before), names, l) = names[p]
                      /\ \A i \in 1..Len(before) :
                           before[i].speaker = l
                             => after[i].speaker
                                  = IF p + 1 <= Len(names) THEN names[p + 1] ELSE l]_vars

\* A gap first, then two speakers, two names: "Unknown" has the first name,
\* the first speaker the second name, the second speaker keeps its label.
C29_Witness ==
    /\ pc = "remapped"
    /\ speakers_list = <<"Alice", "Bob">>
    /\ SpeakersOf(combined_segments) = <<"Alice", "Bob", "SPEAKER_01">>
    /\ Len(rttm_segments) = 2
    /\ rttm_segments[1].start = 1

\* The artifact a stage writes, as it is in a folder.
StageArtifact(stage, folder) ==
    IF stage = "diarization" THEN folder.rttm ELSE folder.raw

\* What the model of a stage can return.
StageOutputs(stage) ==
    IF stage = "diarization" THEN DiarizationOutputs ELSE TranscriptionOutputs

HasSuccess(events) == \E i \in 1..Len(events) : events[i].status = "success"

\* C30: in a run, the step that emits the first success event leaves the
\* artifact of the stage written in full; the flag of a stage turns to true
\* only in the step that follows the second and last success event of a run
\* of that stage; and that step leaves the record as the run has persisted
\* it, logs and timestamps included, with that one flag set, and the other
\* records as they are.
C30_SuccessfulRunOrder ==
    [][/\ (~HasSuccess(run.events) /\ HasSuccess(run'.events))
            => /\ StageArtifact(run'.stage, fs'[run'.conv]).exists
               /\ StageArtifact(run'.stage, fs'[run'.conv]).content
                    \in StageOutputs(run'.stage)
               /\ ~FlagSet(run'.conversations, run'.conv, stage_flag(run'.stage))
                    => ~FlagSet(store', run'.conv, stage_flag(run'.stage))
       /\ \A c \in ConvIds : \A f \in {"diarization", "transcript"} :
            (~FlagSet(store, c, f) /\ FlagSet(store', c, f))
               => /\ run.pc = "saved" /\ run'.pc = "ended"
                  /\ run.conv = c /\ stage_flag(run.stage) = f
                  /\ Len(run'.events) >= 2
                  /\ run'.events[Len(run'.events)].status = "success"
                  /\ run'.events[Len(run'.events) - 1].status = "success"
                  /\ store' = setitem(store, c,
                         setitem(run'.conversations[c], "states",
                                 setitem(run'.conversations[c].states, f, TRUE)))]_vars

\* A diarization run has ended after its two success events: the RTTM file
\* holds the two lines of the model, the flag is true, and the six log
\* entries and both timestamps of the run are in the record.
C30_Witness ==
    /\ run.stage = "diarization" /\ run.pc = "ended" /\ run.conv = "convA"
    /\ HasSuccess(run.events)
    /\ Len(fs["convA"].rttm.content) = 2
    /\ FlagSet(store, "convA", "diarization")
    /\ Len(store["convA"].diarizationProcess.logs) = 6
    /\ store["convA"].diarizationProcess.timeStarted # NoTime
    /\ store["convA"].diarizationProcess.timeCompleted # NoTime

====
